---------------------------- MODULE Spec2Model ----------------------------
(***************************************************************************)
(* A model of the VaniKeys core: the derivation-proof protocol             *)
(* (crypto/derivation.py, crypto/fingerprint.py, crypto/proofs.py) and the *)
(* search engine (core/engine.py).                                         *)
(*                                                                         *)
(* Python values are records tagged by their type in field k.  Byte        *)
(* strings are terms: a hash or a key derivation is a constructor applied  *)
(* to its inputs, so two byte strings are equal exactly when they were     *)
(* computed from the same inputs (collision resistance).  A function that  *)
(* may raise returns [exc |-> <exception class or "none">, val |-> value]. *)
(***************************************************************************)
EXTENDS Integers, Sequences, FiniteSets, TLC

VARIABLES
    \* ---- proof protocol ----
    phase,          \* "start" | "generated" | "tampered" | "verified"
    customer_seed,  \* the customer's seed the proof was generated for
    genArgs,        \* the arguments the proof was generated from
    orig,           \* the order proof as generated
    handed,         \* the order proof as handed to the verifier
    tampered,       \* <<section, field>> changed after generation, or <<>>
    call,           \* the verification call made: function and arguments
    ret,            \* what that call returned or raised
    search,         \* the path search made: its arguments and its result
    \* ---- search engine ----
    config,         \* GenerationConfig: num_workers, max_attempts, timeout_seconds
    pc,             \* the calling process's position in generate()
    attempts,       \* the local attempts of _generate_single_threaded
    started,        \* how many workers Process.start() has been called for
    wpc,            \* wpc[w]: worker w's position in _worker_process
    wattempts,      \* wattempts[w]: the local attempts of worker w
    result_queue,   \* mp.Queue: the results workers have put, in order
    stop_event,     \* mp.Event
    result,         \* the local result of _generate_multi_threaded
    joined,         \* how many workers the cleanup loop has been through
    outcome,        \* what generate() returns or raises
    \* ---- multi-substring matcher ----
    matcher,        \* MultiSubstringMatcher: substrings, fuzzy, case_sensitive
    text,           \* the text the matcher was applied to, or None
    matched,        \* what match(text) returned, or None before the call
    positions,      \* what match_positions(text) returned, absent before the call
    \* ---- probability calculator ----
    vpattern,       \* the Pattern constructed, or the exception of its constructor
    estimate,       \* what calculate(pattern) returned, absent before the call
    score,          \* the difficulty score a token cost is asked for, or None
    cost_tokens,    \* what _calculate_token_cost(score) returned, or None
    \* ---- difficulty calculator ----
    pattern_config, \* the PatternConfig and alphabet an estimate is asked for, or None
    difficulty      \* the DifficultyEstimate calculate(config) returned, or None

proofVars  == <<phase, customer_seed, genArgs, orig, handed, tampered, call, ret, search>>
engineVars == <<config, pc, attempts, started, wpc, wattempts, result_queue,
                stop_event, result, joined, outcome>>
matcherVars == <<matcher, text, matched, positions>>
probabilityVars == <<vpattern, estimate, score, cost_tokens, pattern_config, difficulty>>
vars == <<proofVars, engineVars, matcherVars, probabilityVars>>

\* what the functions of one component leave alone
nonProofVars   == <<engineVars, matcherVars, probabilityVars>>
nonEngineVars  == <<proofVars, matcherVars, probabilityVars>>
nonMatcherVars == <<proofVars, engineVars, probabilityVars>>
nonProbabilityVars == <<proofVars, engineVars, matcherVars>>

----------------------------------------------------------------------------
(* Bounds *)

\* Width of a path index in the model; the program's is 32 (struct ">I").
IndexBits == 2
\* Number of distinct 32-byte master seeds.
NumSeeds == 2
\* Length of the searchable portion of a fingerprint (the program's is 43).
FpLen == 3

\* Largest num_workers a search is configured with.
MaxWorkers == 2
\* Largest max_attempts a search is configured with.
MaxAttempts == 2

\* Longest text a matcher is applied to.
MaxTextLen == 3
\* Largest number of substrings a matcher is built from.
MaxSubstrings == 2
\* Longest pattern whose probability is calculated (all substrings together).
MaxPatternLen == 2
\* Difficulty scores are multiples of 1 / 2^ScoreBits up to MaxScore.
ScoreBits == 2
MaxScore == 50

PathIndexLimit == 2 ^ IndexBits
\* Candidates one process generates when max_attempts is None.
AttemptCap == MaxAttempts + 1

----------------------------------------------------------------------------
(* Python values *)

Absent      == [k |-> "absent"]
PyNone      == [k |-> "none"]
PyInt(n)    == [k |-> "int", v |-> n]
PyFloat(n)  == [k |-> "float", v |-> n]
PyStr(s)    == [k |-> "str", v |-> s]
PyBytes(b)  == [k |-> "bytes", v |-> b]
\* A str holding base64 text: the bytes its alphabet characters decode to,
\* whether other characters (newlines, blanks) are mixed in, and whether its
\* length is a whole number of 4-character groups.
PyB64(b, noise, padded) == [k |-> "b64", v |-> b, noise |-> noise, padded |-> padded]

Return(v) == [exc |-> "none", val |-> v]
Raise(e)  == [exc |-> e, val |-> PyNone]
Ok(r)     == r.exc = "none"

----------------------------------------------------------------------------
(* Text: a str is a sequence of one-character strings *)

\* The characters fingerprints are written in (base64 has 64 of them).
Alphabet == <<"a", "A", "b", "B">>

\* str.lower() on one character
LowerChar(c) ==
    CASE c = "A" -> "a" [] c = "B" -> "b" [] c = "E" -> "e" [] c = "I" -> "i"
      [] c = "O" -> "o" [] c = "S" -> "s" [] c = "T" -> "t" [] c = "G" -> "g"
      [] OTHER -> c

\* str.lower()
Lower(s) == [i \in 1..Len(s) |-> LowerChar(s[i])]

\* str.startswith(prefix)
StartsWith(s, prefix) ==
    /\ Len(s) >= Len(prefix)
    /\ SubSeq(s, 1, Len(prefix)) = prefix

\* the str operator "sub in s"
Contains(s, sub) ==
    \E i \in 0..(Len(s) - Len(sub)) : SubSeq(s, i + 1, i + Len(sub)) = sub

----------------------------------------------------------------------------
(* crypto/derivation.py *)

DERIVATION_CONTEXT == "vanikeys-ssh-v1"

\* The 32 random bytes generate_master_seed returns, numbered k.
MasterSeed(k) == [t |-> "seed", id |-> <<k>>, len |-> 32]

\* Ed25519PrivateKey.from_private_bytes(seed).public_key(): the key object
Ed25519PublicKey(seed) ==
    [t |-> "Ed25519PublicKey", raw |-> [t |-> "pub", id |-> seed.id, len |-> 32]]

\* struct.pack(">I", n)
StructPackI(n) ==
    IF n.k = "int" /\ 0 <= n.v /\ n.v < PathIndexLimit
    THEN Return(n.v)
    ELSE Raise("struct.error")

\* len(x)
PyLen(x) ==
    CASE x.k = "bytes" -> Return(x.v.len)
      [] x.k = "str"   -> Return(Len(x.v))
      [] OTHER         -> Raise("TypeError")

\* the chained comparison 0 <= path_index < 2**32 of derive_child_seed
InIndexRange(n) ==
    CASE n.k \in {"int", "float"} -> Return(0 <= n.v /\ n.v < PathIndexLimit)
      [] OTHER                    -> Raise("TypeError")

seed_to_root_keypair(seed) ==
    LET n == PyLen(seed)
    IN  IF ~Ok(n) THEN n
        ELSE IF n.val # 32 THEN Raise("AssertionError")
        ELSE IF seed.k # "bytes" THEN Raise("TypeError")
        ELSE Return([private_key |-> seed.v, public_key |-> Ed25519PublicKey(seed.v)])

derive_child_seed(parent_seed, path_index) ==
    LET n     == PyLen(parent_seed)
        inr   == InIndexRange(path_index)
        index == StructPackI(path_index)
    IN  IF ~Ok(n) THEN n
        ELSE IF n.val # 32 THEN Raise("AssertionError")
        ELSE IF ~Ok(inr) THEN inr
        ELSE IF ~inr.val THEN Raise("AssertionError")
        ELSE IF ~Ok(index) THEN index
        ELSE IF parent_seed.k # "bytes" THEN Raise("TypeError")
        ELSE Return(PyBytes([t |-> "seed",
                             id |-> Append(parent_seed.v.id, index.val),
                             len |-> 32]))

derive_child_keypair(parent_seed, path_index) ==
    LET child_seed == derive_child_seed(parent_seed, path_index)
    IN  IF ~Ok(child_seed) THEN child_seed
        ELSE seed_to_root_keypair(child_seed.val)

public_key_to_bytes(public_key) == public_key.raw

----------------------------------------------------------------------------
(* crypto/fingerprint.py *)

RECURSIVE KeyNumber(_)
\* A number identifying a key by how its seed was derived.
KeyNumber(id) ==
    IF Len(id) = 1 THEN id[1]
    ELSE KeyNumber(SubSeq(id, 1, Len(id) - 1)) * (PathIndexLimit + 1) + id[Len(id)] + 1

\* base64(sha256(wire format of the key)), padding stripped: FpLen characters
\* of Alphabet, different for different keys.
DigestText(raw) ==
    LET n == KeyNumber(raw.id)
        b == Len(Alphabet)
    IN  [j \in 1..FpLen |-> Alphabet[((n \div (b ^ (j - 1))) % b) + 1]]

SHA256_PREFIX == <<"S", "H", "A", "2", "5", "6", ":">>

compute_ssh_fingerprint(public_key) == SHA256_PREFIX \o DigestText(public_key.raw)

extract_fingerprint_searchable(fingerprint) ==
    IF StartsWith(fingerprint, SHA256_PREFIX)
    THEN SubSeq(fingerprint, 7 + 1, Len(fingerprint))
    ELSE fingerprint

----------------------------------------------------------------------------
(* crypto/proofs.py *)

\* base64.b64encode(b).decode("ascii")
B64Encode(b) == PyB64(b, FALSE, TRUE)

\* base64.b64decode(s): characters outside the alphabet are discarded, bad
\* padding raises binascii.Error (a ValueError), a non-string TypeError.
B64Decode(s) ==
    CASE s.k = "b64" -> IF s.padded THEN Return(s.v) ELSE Raise("ValueError")
      [] OTHER       -> Raise("TypeError")

\* d[f] on a Python value
GetItem(d, f) ==
    IF d.k # "dict" THEN Raise("TypeError")
    ELSE IF f \notin DOMAIN d THEN Raise("KeyError")
    ELSE IF d[f].k = "absent" THEN Raise("KeyError")
    ELSE Return(d[f])

\* sha256(root_public_bytes || struct.pack(">I", path_index) || context)
DerivationHash(root_public_bytes, index) ==
    [t |-> "sha256", root |-> root_public_bytes, idx |-> index,
     ctx |-> DERIVATION_CONTEXT, len |-> 32]

generate_derivation_proof(root_public_bytes, path_index, child_public_key) ==
    LET index == StructPackI(path_index)
    IN  IF ~Ok(index) THEN index
        ELSE Return([k |-> "dict",
                     path_index |-> path_index,
                     root_public_key |-> B64Encode(root_public_bytes),
                     child_public_key |-> B64Encode(public_key_to_bytes(child_public_key)),
                     derivation_hash |-> B64Encode(DerivationHash(root_public_bytes, index.val)),
                     algorithm |-> PyStr(<<"ed25519">>),
                     context |-> PyStr(<<DERIVATION_CONTEXT>>)])

\* verify_derivation_proof without its step 4, the derivation hash check
VerifyDerivationSteps_NoHashCheck(proof, seed) ==
    LET path_index == GetItem(proof, "path_index")
        child_s    == GetItem(proof, "child_public_key")
        claimed_child_public == B64Decode(child_s.val)
        hash_s     == GetItem(proof, "derivation_hash")
        claimed_derivation_hash == B64Decode(hash_s.val)
        child      == derive_child_keypair(seed, path_index.val)
        actual_child_bytes == public_key_to_bytes(child.val.public_key)
    IN  IF ~Ok(path_index) THEN path_index
        ELSE IF ~Ok(child_s) THEN child_s
        ELSE IF ~Ok(claimed_child_public) THEN claimed_child_public
        ELSE IF ~Ok(hash_s) THEN hash_s
        ELSE IF ~Ok(claimed_derivation_hash) THEN claimed_derivation_hash
        ELSE IF ~Ok(child) THEN child
        ELSE IF actual_child_bytes # claimed_child_public.val THEN Return(FALSE)
        ELSE Return(TRUE)

\* the try block of verify_derivation_proof
VerifyDerivationSteps(proof, seed) ==
    LET path_index == GetItem(proof, "path_index")
        child_s    == GetItem(proof, "child_public_key")
        claimed_child_public == B64Decode(child_s.val)
        hash_s     == GetItem(proof, "derivation_hash")
        claimed_derivation_hash == B64Decode(hash_s.val)
        child      == derive_child_keypair(seed, path_index.val)
        actual_child_bytes == public_key_to_bytes(child.val.public_key)
        root       == seed_to_root_keypair(seed)
        root_public_bytes == public_key_to_bytes(root.val.public_key)
        index      == StructPackI(path_index.val)
        expected_derivation_hash == DerivationHash(root_public_bytes, index.val)
    IN  IF ~Ok(path_index) THEN path_index
        ELSE IF ~Ok(child_s) THEN child_s
        ELSE IF ~Ok(claimed_child_public) THEN claimed_child_public
        ELSE IF ~Ok(hash_s) THEN hash_s
        ELSE IF ~Ok(claimed_derivation_hash) THEN claimed_derivation_hash
        ELSE IF ~Ok(child) THEN child
        ELSE IF actual_child_bytes # claimed_child_public.val THEN Return(FALSE)
        ELSE IF ~Ok(root) THEN root
        ELSE IF ~Ok(index) THEN index
        ELSE IF expected_derivation_hash # claimed_derivation_hash.val THEN Return(FALSE)
        ELSE Return(TRUE)

\* except (KeyError, ValueError, TypeError): return False
verify_derivation_proof(proof, seed) ==
    LET r == VerifyDerivationSteps(proof, seed)
    IN  IF r.exc \in {"KeyError", "ValueError", "TypeError"} THEN Return(FALSE) ELSE r


\* s.lower() on a Python value
StrLower(s) ==
    IF s.k = "str" THEN Return(Lower(s.v)) ELSE Raise("AttributeError")

generate_order_proof(root_public_bytes, path_index, child_public_key, pattern, fingerprint) ==
    LET derivation_proof == generate_derivation_proof(root_public_bytes, path_index,
                                                      child_public_key)
        searchable    == extract_fingerprint_searchable(fingerprint)
        pattern_found == Contains(Lower(searchable), Lower(pattern))
    IN  IF ~Ok(derivation_proof) THEN derivation_proof
        ELSE Return([k |-> "dict",
                     derivation |-> derivation_proof.val,
                     pattern_match |-> [k |-> "dict",
                                        pattern |-> PyStr(pattern),
                                        fingerprint |-> PyStr(fingerprint),
                                        searchable_portion |-> PyStr(searchable),
                                        pattern_found |-> pattern_found,
                                        case_sensitive |-> FALSE],
                     version |-> PyStr(<<"vanikeys-v1">>)])

ERR_DERIVATION  == "Derivation proof invalid"
ERR_FINGERPRINT == "Fingerprint mismatch"
ERR_NOT_FOUND   == "Pattern not found in fingerprint"
ERR_MISMATCH    == "Pattern mismatch"

\* verify_order_proof reporting a pattern mismatch only when nothing else failed
verify_order_proof_OneError(proof, master_seed, expected_pattern) ==
    LET derivation       == GetItem(proof, "derivation")
        derivation_valid == verify_derivation_proof(derivation.val, master_seed)
        errors1          == IF derivation_valid.val THEN <<>> ELSE <<ERR_DERIVATION>>
        pattern_proof    == GetItem(proof, "pattern_match")
        fingerprint      == GetItem(pattern_proof.val, "fingerprint")
        pattern          == GetItem(pattern_proof.val, "pattern")
        path_index       == GetItem(derivation.val, "path_index")
        derived          == derive_child_keypair(master_seed, path_index.val)
        computed_fingerprint == compute_ssh_fingerprint(derived.val.public_key)
        fingerprint_valid ==
            /\ fingerprint.val.k = "str"
            /\ fingerprint.val.v = computed_fingerprint
        errors2          == IF fingerprint_valid THEN errors1
                            ELSE Append(errors1, ERR_FINGERPRINT)
        searchable       == extract_fingerprint_searchable(computed_fingerprint)
        pattern_lower    == StrLower(pattern.val)
        pattern_found    == Contains(Lower(searchable), pattern_lower.val)
        errors3          == IF pattern_found THEN errors2
                            ELSE Append(errors2, ERR_NOT_FOUND)
        same_pattern     == pattern_lower.val = Lower(expected_pattern)
        errors4          == IF same_pattern \/ errors3 # <<>> THEN errors3
                            ELSE Append(errors3, ERR_MISMATCH)
        pattern_valid    == pattern_found /\ same_pattern
    IN  IF ~Ok(derivation) THEN derivation
        ELSE IF ~Ok(derivation_valid) THEN derivation_valid
        ELSE IF ~Ok(pattern_proof) THEN pattern_proof
        ELSE IF ~Ok(fingerprint) THEN fingerprint
        ELSE IF ~Ok(pattern) THEN pattern
        ELSE IF ~Ok(path_index) THEN path_index
        ELSE IF ~Ok(derived) THEN derived
        ELSE IF ~Ok(pattern_lower) THEN pattern_lower
        ELSE Return([k |-> "dict",
                     valid |-> derivation_valid.val /\ fingerprint_valid /\ pattern_valid,
                     derivation_valid |-> derivation_valid.val,
                     fingerprint_valid |-> fingerprint_valid,
                     pattern_valid |-> pattern_valid,
                     fingerprint |-> PyStr(computed_fingerprint),
                     errors |-> errors4])

\* verify_order_proof without the comparison with the expected pattern
verify_order_proof_AnyExpected(proof, master_seed, expected_pattern) ==
    LET derivation       == GetItem(proof, "derivation")
        derivation_valid == verify_derivation_proof(derivation.val, master_seed)
        errors1          == IF derivation_valid.val THEN <<>> ELSE <<ERR_DERIVATION>>
        pattern_proof    == GetItem(proof, "pattern_match")
        fingerprint      == GetItem(pattern_proof.val, "fingerprint")
        pattern          == GetItem(pattern_proof.val, "pattern")
        path_index       == GetItem(derivation.val, "path_index")
        derived          == derive_child_keypair(master_seed, path_index.val)
        computed_fingerprint == compute_ssh_fingerprint(derived.val.public_key)
        fingerprint_valid ==
            /\ fingerprint.val.k = "str"
            /\ fingerprint.val.v = computed_fingerprint
        errors2          == IF fingerprint_valid THEN errors1
                            ELSE Append(errors1, ERR_FINGERPRINT)
        searchable       == extract_fingerprint_searchable(computed_fingerprint)
        pattern_lower    == StrLower(pattern.val)
        pattern_found    == Contains(Lower(searchable), pattern_lower.val)
        errors3          == IF pattern_found THEN errors2
                            ELSE Append(errors2, ERR_NOT_FOUND)
        same_pattern     == TRUE
        errors4          == IF same_pattern THEN errors3
                            ELSE Append(errors3, ERR_MISMATCH)
        pattern_valid    == pattern_found /\ same_pattern
    IN  IF ~Ok(derivation) THEN derivation
        ELSE IF ~Ok(derivation_valid) THEN derivation_valid
        ELSE IF ~Ok(pattern_proof) THEN pattern_proof
        ELSE IF ~Ok(fingerprint) THEN fingerprint
        ELSE IF ~Ok(pattern) THEN pattern
        ELSE IF ~Ok(path_index) THEN path_index
        ELSE IF ~Ok(derived) THEN derived
        ELSE IF ~Ok(pattern_lower) THEN pattern_lower
        ELSE Return([k |-> "dict",
                     valid |-> derivation_valid.val /\ fingerprint_valid /\ pattern_valid,
                     derivation_valid |-> derivation_valid.val,
                     fingerprint_valid |-> fingerprint_valid,
                     pattern_valid |-> pattern_valid,
                     fingerprint |-> PyStr(computed_fingerprint),
                     errors |-> errors4])

verify_order_proof(proof, master_seed, expected_pattern) ==
    LET derivation       == GetItem(proof, "derivation")
        derivation_valid == verify_derivation_proof(derivation.val, master_seed)
        errors1          == IF derivation_valid.val THEN <<>> ELSE <<ERR_DERIVATION>>
        pattern_proof    == GetItem(proof, "pattern_match")
        fingerprint      == GetItem(pattern_proof.val, "fingerprint")
        pattern          == GetItem(pattern_proof.val, "pattern")
        path_index       == GetItem(derivation.val, "path_index")
        derived          == derive_child_keypair(master_seed, path_index.val)
        computed_fingerprint == compute_ssh_fingerprint(derived.val.public_key)
        fingerprint_valid ==
            /\ fingerprint.val.k = "str"
            /\ fingerprint.val.v = computed_fingerprint
        errors2          == IF fingerprint_valid THEN errors1
                            ELSE Append(errors1, ERR_FINGERPRINT)
        searchable       == extract_fingerprint_searchable(computed_fingerprint)
        pattern_lower    == StrLower(pattern.val)
        pattern_found    == Contains(Lower(searchable), pattern_lower.val)
        errors3          == IF pattern_found THEN errors2
                            ELSE Append(errors2, ERR_NOT_FOUND)
        same_pattern     == pattern_lower.val = Lower(expected_pattern)
        errors4          == IF same_pattern THEN errors3
                            ELSE Append(errors3, ERR_MISMATCH)
        pattern_valid    == pattern_found /\ same_pattern
    IN  IF ~Ok(derivation) THEN derivation
        ELSE IF ~Ok(derivation_valid) THEN derivation_valid
        ELSE IF ~Ok(pattern_proof) THEN pattern_proof
        ELSE IF ~Ok(fingerprint) THEN fingerprint
        ELSE IF ~Ok(pattern) THEN pattern
        ELSE IF ~Ok(path_index) THEN path_index
        ELSE IF ~Ok(derived) THEN derived
        ELSE IF ~Ok(pattern_lower) THEN pattern_lower
        ELSE Return([k |-> "dict",
                     valid |-> derivation_valid.val /\ fingerprint_valid /\ pattern_valid,
                     derivation_valid |-> derivation_valid.val,
                     fingerprint_valid |-> fingerprint_valid,
                     pattern_valid |-> pattern_valid,
                     fingerprint |-> PyStr(computed_fingerprint),
                     errors |-> errors4])

\* "f in d" on a Python value
HasKey(d, f) ==
    IF d.k # "dict" THEN Raise("TypeError")
    ELSE Return(f \in DOMAIN d /\ d[f].k # "absent")

\* d.get(f, "") on a Python value
GetOrEmpty(d, f) ==
    IF d.k # "dict" THEN Raise("AttributeError")
    ELSE IF f \in DOMAIN d /\ d[f].k # "absent" THEN Return(d[f])
    ELSE Return(PyStr(<<>>))

\* bool(x) on a Python value
Truthy(x) ==
    CASE x.k = "str"  -> x.v # <<>>
      [] x.k = "int"  -> x.v # 0
      [] x.k = "none" -> FALSE
      [] OTHER        -> TRUE

\* the results verify_order_proof_passwordless returns
PasswordlessResult(valid, root_key_match, structure, pattern_match, hash_present, errors) ==
    Return([k |-> "dict", valid |-> valid,
            checks |-> [root_key_match |-> root_key_match, structure |-> structure,
                        pattern_match |-> pattern_match,
                        derivation_hash_present |-> hash_present],
            errors |-> errors])

\* verify_order_proof_passwordless without the comparison of the root keys
PasswordlessSteps_NoRootCheck(proof, root_public_bytes) ==
    LET has_derivation == HasKey(proof, "derivation")
        has_pattern    == HasKey(proof, "pattern_match")
        deriv_proof    == proof.derivation
        pattern_match  == proof.pattern_match
        root_s         == GetItem(deriv_proof, "root_public_key")
        claimed_root_public == B64Decode(root_s.val)
        root_key_match == TRUE
        root_check     == IF root_key_match THEN "True" ELSE "False"
        errors1        == IF root_key_match THEN <<>> ELSE <<"Root public key mismatch">>
        fingerprint    == GetOrEmpty(pattern_match, "fingerprint")
        pattern        == GetOrEmpty(pattern_match, "pattern")
        pattern_lower  == StrLower(pattern.val)
        pattern_found  ==
            Contains(Lower(extract_fingerprint_searchable(fingerprint.val.v)),
                     pattern_lower.val)
        errors2        == IF pattern_found THEN errors1
                          ELSE Append(errors1, ERR_NOT_FOUND)
        hash_present   == HasKey(deriv_proof, "derivation_hash")
        errors3        == IF hash_present.val THEN errors2
                          ELSE Append(errors2, "Missing derivation_hash in proof")
    IN  IF ~Ok(has_derivation) THEN has_derivation
        ELSE IF ~has_derivation.val
        THEN PasswordlessResult(FALSE, "unset", "False", "unset", "unset",
                                <<"Missing derivation in proof">>)
        ELSE IF ~has_pattern.val
        THEN PasswordlessResult(FALSE, "unset", "False", "unset", "unset",
                                <<"Missing pattern_match in proof">>)
        ELSE IF ~Ok(root_s) THEN root_s
        ELSE IF ~Ok(claimed_root_public) THEN claimed_root_public
        ELSE IF ~Ok(fingerprint) THEN fingerprint
        ELSE IF ~Ok(pattern) THEN pattern
        ELSE IF ~Truthy(fingerprint.val) \/ ~Truthy(pattern.val)
        THEN PasswordlessResult(FALSE, root_check, "False", "unset", "unset",
                                Append(errors1, "Missing fingerprint or pattern in proof"))
        ELSE IF fingerprint.val.k # "str" THEN Raise("AttributeError")
        ELSE IF ~Ok(pattern_lower) THEN pattern_lower
        ELSE IF ~Ok(hash_present) THEN hash_present
        ELSE PasswordlessResult(root_key_match /\ pattern_found /\ hash_present.val,
                                root_check, "True",
                                IF pattern_found THEN "True" ELSE "False",
                                IF hash_present.val THEN "True" ELSE "False",
                                errors3)

\* the try block of verify_order_proof_passwordless; a check not made is
\* "unset" in checks
PasswordlessSteps(proof, root_public_bytes) ==
    LET has_derivation == HasKey(proof, "derivation")
        has_pattern    == HasKey(proof, "pattern_match")
        deriv_proof    == proof.derivation
        pattern_match  == proof.pattern_match
        root_s         == GetItem(deriv_proof, "root_public_key")
        claimed_root_public == B64Decode(root_s.val)
        root_key_match == claimed_root_public.val = root_public_bytes
        root_check     == IF root_key_match THEN "True" ELSE "False"
        errors1        == IF root_key_match THEN <<>> ELSE <<"Root public key mismatch">>
        fingerprint    == GetOrEmpty(pattern_match, "fingerprint")
        pattern        == GetOrEmpty(pattern_match, "pattern")
        pattern_lower  == StrLower(pattern.val)
        pattern_found  ==
            Contains(Lower(extract_fingerprint_searchable(fingerprint.val.v)),
                     pattern_lower.val)
        errors2        == IF pattern_found THEN errors1
                          ELSE Append(errors1, ERR_NOT_FOUND)
        hash_present   == HasKey(deriv_proof, "derivation_hash")
        errors3        == IF hash_present.val THEN errors2
                          ELSE Append(errors2, "Missing derivation_hash in proof")
    IN  IF ~Ok(has_derivation) THEN has_derivation
        ELSE IF ~has_derivation.val
        THEN PasswordlessResult(FALSE, "unset", "False", "unset", "unset",
                                <<"Missing derivation in proof">>)
        ELSE IF ~has_pattern.val
        THEN PasswordlessResult(FALSE, "unset", "False", "unset", "unset",
                                <<"Missing pattern_match in proof">>)
        ELSE IF ~Ok(root_s) THEN root_s
        ELSE IF ~Ok(claimed_root_public) THEN claimed_root_public
        ELSE IF ~Ok(fingerprint) THEN fingerprint
        ELSE IF ~Ok(pattern) THEN pattern
        ELSE IF ~Truthy(fingerprint.val) \/ ~Truthy(pattern.val)
        THEN PasswordlessResult(FALSE, root_check, "False", "unset", "unset",
                                Append(errors1, "Missing fingerprint or pattern in proof"))
        ELSE IF fingerprint.val.k # "str" THEN Raise("AttributeError")
        ELSE IF ~Ok(pattern_lower) THEN pattern_lower
        ELSE IF ~Ok(hash_present) THEN hash_present
        ELSE PasswordlessResult(root_key_match /\ pattern_found /\ hash_present.val,
                                root_check, "True",
                                IF pattern_found THEN "True" ELSE "False",
                                IF hash_present.val THEN "True" ELSE "False",
                                errors3)


\* except (KeyError, ValueError, TypeError) as e: structure False, valid False
verify_order_proof_passwordless(proof, root_public_bytes) ==
    LET r == PasswordlessSteps(proof, root_public_bytes)
    IN  IF r.exc \in {"KeyError", "ValueError", "TypeError"}
        THEN PasswordlessResult(FALSE, "unset", "False", "unset", "unset",
                                <<"Proof format invalid">>)
        ELSE r

----------------------------------------------------------------------------
(* The proof protocol as a state machine: the server generates an order   *)
(* proof, the proof may be changed in one place on its way to the         *)
(* customer, and the customer verifies it.                                 *)

Seeds   == 1..NumSeeds
Indices == 0..(PathIndexLimit - 1)

\* The patterns customers order.
Patterns == {<<"a">>, <<"A">>, <<"b", "a">>, <<"a", ".">>}

OtherSeed(k)  == (k % NumSeeds) + 1
OtherIndex(i) == (i + 1) % PathIndexLimit

RootPublicBytes(k) ==
    public_key_to_bytes(seed_to_root_keypair(PyBytes(MasterSeed(k))).val.public_key)

ChildPublicKey(k, i) ==
    derive_child_keypair(PyBytes(MasterSeed(k)), PyInt(i)).val.public_key

\* equality of two Python values
PyEq(a, b) == a.k = b.k /\ a = b

\* The child keys a proof may be generated with: the one at the path, one
\* of another path, one of another seed.
ChildSources(k, i) == {<<k, i>>, <<k, OtherIndex(i)>>, <<OtherSeed(k), i>>}

\* What a path_index field may be replaced by.
IndexValues ==
    {PyInt(i) : i \in (0 - 1)..PathIndexLimit}
        \cup {PyFloat(1), PyNone, PyStr(<<"1">>)}

\* What a base64 field holding bytes b may be replaced by.
KeyValues(b, g) ==
    {B64Encode(x) : x \in {RootPublicBytes(g.seed), RootPublicBytes(OtherSeed(g.seed)),
                           public_key_to_bytes(ChildPublicKey(g.seed, g.index)),
                           public_key_to_bytes(ChildPublicKey(g.seed, OtherIndex(g.index))),
                           DerivationHash(RootPublicBytes(g.seed), OtherIndex(g.index)),
                           DerivationHash(RootPublicBytes(OtherSeed(g.seed)), g.index)}}
        \cup {PyB64(b, TRUE, TRUE), PyB64(b, FALSE, FALSE), PyInt(0)}

\* What a pattern or fingerprint field may be replaced by.
TextValues(g) ==
    {PyStr(x) : x \in Patterns}
        \cup {PyStr(compute_ssh_fingerprint(ChildPublicKey(g.seed, OtherIndex(g.index)))),
              PyStr(<<>>), PyInt(0), PyInt(1)}

DerivationFields == {"path_index", "root_public_key", "child_public_key", "derivation_hash"}
PatternFields    == {"pattern", "fingerprint"}

\* the seeds a verifier may pass
SeedArgs(k) ==
    {PyBytes(MasterSeed(k)), PyBytes(MasterSeed(OtherSeed(k))),
     PyBytes([t |-> "seed", id |-> <<k>>, len |-> 31]), PyNone}

NoProof == [k |-> "none"]
NoCall  == [fn |-> "none", seed |-> PyNone, expected |-> <<>>]
NoArgs  == [seed |-> 0, index |-> 0, child |-> <<0, 0>>, root |-> 0, pattern |-> <<>>]

NoKey    == [w |-> 0 - 1, n |-> 0, matches |-> FALSE]
NoResult == [keypair |-> NoKey, attempts |-> 0, worker_id |-> 0 - 1]
NoOutcome == [kind |-> "none", exc |-> "none", keypair |-> NoKey, attempts |-> 0]

EngineIdle ==
    /\ config = [num_workers |-> 0, max_attempts |-> 0, timeout_seconds |-> 0]
    /\ pc = "idle"
    /\ attempts = 0
    /\ started = 0
    /\ wpc = <<>>
    /\ wattempts = <<>>
    /\ result_queue = <<>>
    /\ stop_event = FALSE
    /\ result = NoResult
    /\ joined = 0
    /\ outcome = NoOutcome

NoMatcher == [substrings |-> <<>>, fuzzy |-> FALSE, case_sensitive |-> FALSE]

MatcherIdle ==
    /\ matcher = NoMatcher
    /\ text = PyNone
    /\ matched = PyNone
    /\ positions = Absent

ProbabilityIdle ==
    /\ vpattern = PyNone
    /\ estimate = Absent
    /\ score = PyNone
    /\ cost_tokens = PyNone
    /\ pattern_config = PyNone
    /\ difficulty = PyNone

NoSearch == [pattern |-> <<>>, case_sensitive |-> FALSE, max_attempts |-> 0,
             result |-> Return(Absent)]

ProofIdle ==
    /\ phase = "idle"
    /\ search = NoSearch
    /\ customer_seed = PyNone
    /\ genArgs = NoArgs
    /\ orig = NoProof
    /\ handed = NoProof
    /\ tampered = <<>>
    /\ call = NoCall
    /\ ret = Return(PyNone)

InitProof ==
    /\ phase = "start"
    /\ search = NoSearch
    /\ \E k \in Seeds : /\ customer_seed = PyBytes(MasterSeed(k))
                        /\ genArgs = [NoArgs EXCEPT !.seed = k]
    /\ orig = NoProof
    /\ handed = NoProof
    /\ tampered = <<>>
    /\ call = NoCall
    /\ ret = Return(PyNone)
    /\ EngineIdle
    /\ MatcherIdle
    /\ ProbabilityIdle

\* The server builds the order proof for a path it found.
GenerateProof ==
    /\ phase = "start"
    /\ \E i \in Indices, rk \in Seeds, pat \in Patterns :
        \E src \in ChildSources(genArgs.seed, i) :
          LET child == ChildPublicKey(src[1], src[2])
              p == generate_order_proof(RootPublicBytes(rk), PyInt(i), child, pat,
                                        compute_ssh_fingerprint(child))
          IN  /\ Ok(p)
              /\ genArgs' = [seed |-> genArgs.seed, index |-> i, child |-> src,
                             root |-> rk, pattern |-> pat]
              /\ orig' = p.val
              /\ handed' = p.val
    /\ phase' = "generated"
    /\ UNCHANGED <<customer_seed, tampered, call, ret, search>>
    /\ UNCHANGED nonProofVars

\* One field of the derivation section is replaced or removed.
TamperDerivation ==
    /\ phase = "generated"
    /\ \E f \in DerivationFields :
         \E v \in (IF f = "path_index" THEN IndexValues
                   ELSE KeyValues(handed.derivation[f].v, genArgs)) \cup {Absent} :
            /\ ~PyEq(v, handed.derivation[f])
            /\ handed' = [handed EXCEPT !.derivation[f] = v]
            /\ tampered' = <<"derivation", f>>
    /\ phase' = "tampered"
    /\ UNCHANGED <<customer_seed, genArgs, orig, call, ret, search>>
    /\ UNCHANGED nonProofVars

\* One field of the pattern_match section is replaced or removed.
TamperPattern ==
    /\ phase = "generated"
    /\ \E f \in PatternFields :
         \E v \in TextValues(genArgs) \cup {Absent} :
            /\ ~PyEq(v, handed.pattern_match[f])
            /\ handed' = [handed EXCEPT !.pattern_match[f] = v]
            /\ tampered' = <<"pattern_match", f>>
    /\ phase' = "tampered"
    /\ UNCHANGED <<customer_seed, genArgs, orig, call, ret, search>>
    /\ UNCHANGED nonProofVars

\* A whole section is removed or replaced by None.
TamperSection ==
    /\ phase = "generated"
    /\ \E sec \in {"derivation", "pattern_match"}, v \in {Absent, PyNone} :
            /\ handed' = [handed EXCEPT ![sec] = v]
            /\ tampered' = <<sec>>
    /\ phase' = "tampered"
    /\ UNCHANGED <<customer_seed, genArgs, orig, call, ret, search>>
    /\ UNCHANGED nonProofVars

\* The customer calls verify_derivation_proof on the derivation section.
VerifyDerivation ==
    /\ phase \in {"generated", "tampered"}
    /\ handed.derivation.k # "absent"
    /\ \E s \in SeedArgs(genArgs.seed) :
          /\ call' = [fn |-> "verify_derivation_proof", seed |-> s, expected |-> <<>>]
          /\ ret' = verify_derivation_proof(handed.derivation, s)
    /\ phase' = "verified"
    /\ UNCHANGED <<customer_seed, genArgs, orig, handed, tampered, search>>
    /\ UNCHANGED nonProofVars

\* The customer calls verify_order_proof on the whole proof.
VerifyOrder ==
    /\ phase \in {"generated", "tampered"}
    /\ \E s \in SeedArgs(genArgs.seed), e \in Patterns :
          /\ call' = [fn |-> "verify_order_proof", seed |-> s, expected |-> e]
          /\ ret' = verify_order_proof(handed, s, e)
    /\ phase' = "verified"
    /\ UNCHANGED <<customer_seed, genArgs, orig, handed, tampered, search>>
    /\ UNCHANGED nonProofVars


----------------------------------------------------------------------------
(* matchers/multi_substring.py *)

PyBool(b) == [k |-> "bool", v |-> b]
PyList(l) == [k |-> "list", v |-> l]

\* The characters of the texts and substrings: a letter in both cases, the
\* digit fuzzy matching pairs it with, a character that is special at the
\* head of a regular-expression character class, and the line feed.
Chars == <<"A", "a", "4", "^", "\n">>

\* str.upper() on one character
UpperChar(c) ==
    CASE c = "a" -> "A" [] c = "b" -> "B" [] c = "e" -> "E" [] c = "i" -> "I"
      [] c = "o" -> "O" [] c = "s" -> "S" [] c = "t" -> "T" [] c = "g" -> "G"
      [] OTHER -> c

\* str.isalpha() on one character
IsAlpha(c) == LowerChar(c) # c \/ UpperChar(c) # c

\* FuzzyRules.EQUIVALENTS
EQUIVALENTS ==
    [c \in {"0", "O", "1", "I", "3", "E", "4", "A", "5", "S", "7", "T", "8", "B"} |->
        CASE c \in {"0", "O"} -> <<"O", "0">>
          [] c \in {"1", "I"} -> <<"I", "1">>
          [] c \in {"3", "E"} -> <<"E", "3">>
          [] c \in {"4", "A"} -> <<"A", "4">>
          [] c \in {"5", "S"} -> <<"S", "5">>
          [] c \in {"7", "T"} -> <<"T", "7">>
          [] c \in {"8", "B"} -> <<"B", "8">>]

\* What re.compile makes of the text "[" + cs + "]": a character class,
\* negated when the text between the brackets begins with "^".
CharClass(cs) ==
    IF Len(cs) > 1 /\ cs[1] = "^"
    THEN [neg |-> TRUE,  chars |-> {cs[i] : i \in 2..Len(cs)}]
    ELSE [neg |-> FALSE, chars |-> {cs[i] : i \in 1..Len(cs)}]

\* What re.compile makes of re.escape(c): the character itself.
Literal(c) == [neg |-> FALSE, chars |-> {c}]

\* FuzzyRules.to_regex_pattern, one character of substring.upper()
FuzzyClass(char) ==
    IF char \in DOMAIN EQUIVALENTS
    THEN LET eq == EQUIVALENTS[char]
         IN  [neg |-> FALSE,
              chars |-> UNION {{eq[i], LowerChar(eq[i])} : i \in 1..Len(eq)}]
    ELSE CharClass(<<char, LowerChar(char)>>)

\* FuzzyRules.to_regex_pattern: one character class per character
to_regex_pattern(substring) ==
    [i \in 1..Len(substring) |-> FuzzyClass(UpperChar(substring[i]))]

\* FuzzyRules.normalize, one character: the canonical form of text.upper()
NormalizeChar(c) ==
    IF UpperChar(c) \in DOMAIN EQUIVALENTS THEN EQUIVALENTS[UpperChar(c)][1]
    ELSE UpperChar(c)

\* FuzzyRules.normalize
normalize(txt) == [i \in 1..Len(txt) |-> NormalizeChar(txt[i])]

\* the sub_pattern _build_pattern and match_positions build for a substring
SubPattern(m, substring) ==
    IF m.fuzzy THEN to_regex_pattern(substring)
    ELSE IF m.case_sensitive THEN [i \in 1..Len(substring) |-> Literal(substring[i])]
    ELSE [i \in 1..Len(substring) |->
            IF IsAlpha(substring[i])
            THEN CharClass(<<UpperChar(substring[i]), LowerChar(substring[i])>>)
            ELSE Literal(substring[i])]

\* _build_pattern: the sub-patterns, to be joined by ".*?"
build_pattern(m) == [k \in 1..Len(m.substrings) |-> SubPattern(m, m.substrings[k])]

\* one character class of a compiled pattern against one character
ClassMatches(class, c) == (c \in class.chars) # class.neg

\* the sub-pattern matches txt at offset p (counted from 0)
MatchesAt(sub_pattern, txt, p) ==
    /\ p + Len(sub_pattern) <= Len(txt)
    /\ \A i \in 1..Len(sub_pattern) : ClassMatches(sub_pattern[i], txt[p + i])

\* ".*?" matches txt[from:to]: "." is any character except the line feed
DotStar(txt, from, to) == \A i \in (from + 1)..to : txt[i] # "\n"

RECURSIVE MatchFrom(_, _, _, _)
\* sub-patterns k.. of the joined pattern match txt, sub-pattern k at offset p
MatchFrom(pattern, k, txt, p) ==
    /\ MatchesAt(pattern[k], txt, p)
    /\ \/ k = Len(pattern)
       \/ \E q \in (p + Len(pattern[k]))..Len(txt) :
            /\ DotStar(txt, p + Len(pattern[k]), q)
            /\ MatchFrom(pattern, k + 1, txt, q)

\* the offsets at which self._regex matches
MatchStarts(m, txt) ==
    {p \in 0..Len(txt) : MatchFrom(build_pattern(m), 1, txt, p)}

\* self._regex.search(text).start(): search returns the leftmost match
SearchStart(m, txt) == CHOOSE p \in MatchStarts(m, txt) : \A q \in MatchStarts(m, txt) : p <= q

\* MultiSubstringMatcher.match
match(m, txt) == MatchStarts(m, txt) # {}

RECURSIVE PositionsLoop_NoAdvance(_, _, _, _, _)
\* a loop that searches every substring from the start of the whole match
PositionsLoop_NoAdvance(m, txt, k, search_start, found) ==
    IF k > Len(m.substrings) THEN PyList(found)
    ELSE LET sub_pattern == SubPattern(m, m.substrings[k])
             starts == {p \in search_start..Len(txt) : MatchesAt(sub_pattern, txt, p)}
         IN  IF starts = {} THEN PyNone
             ELSE LET actual_start == CHOOSE p \in starts : \A q \in starts : p <= q
                      actual_end   == actual_start + Len(sub_pattern)
                  IN  PositionsLoop_NoAdvance(m, txt, k + 1, search_start,
                                              Append(found, <<actual_start, actual_end>>))

RECURSIVE PositionsLoop_Gap(_, _, _, _, _)
\* a loop that searches the next substring one character after the last span
PositionsLoop_Gap(m, txt, k, search_start, found) ==
    IF k > Len(m.substrings) THEN PyList(found)
    ELSE LET sub_pattern == SubPattern(m, m.substrings[k])
             starts == {p \in search_start..Len(txt) : MatchesAt(sub_pattern, txt, p)}
         IN  IF starts = {} THEN PyNone
             ELSE LET actual_start == CHOOSE p \in starts : \A q \in starts : p <= q
                      actual_end   == actual_start + Len(sub_pattern)
                  IN  PositionsLoop_Gap(m, txt, k + 1, actual_end + 1,
                                        Append(found, <<actual_start, actual_end>>))

RECURSIVE PositionsLoop(_, _, _, _, _)
\* the for loop of match_positions, at substring k with search_start and the
\* positions found so far
PositionsLoop(m, txt, k, search_start, found) ==
    IF k > Len(m.substrings) THEN PyList(found)
    ELSE LET sub_pattern == SubPattern(m, m.substrings[k])
             starts == {p \in search_start..Len(txt) : MatchesAt(sub_pattern, txt, p)}
         IN  IF starts = {} THEN PyNone
             ELSE LET actual_start == CHOOSE p \in starts : \A q \in starts : p <= q
                      actual_end   == actual_start + Len(sub_pattern)
                  IN  PositionsLoop(m, txt, k + 1, actual_end,
                                    Append(found, <<actual_start, actual_end>>))

\* MultiSubstringMatcher.match_positions
match_positions(m, txt) ==
    IF ~match(m, txt) THEN PyNone
    ELSE PositionsLoop(m, txt, 1, SearchStart(m, txt), <<>>)

RECURSIVE StringsUpTo(_)
\* the strings over Chars of length at most n
StringsUpTo(n) ==
    IF n = 0 THEN {<<>>}
    ELSE LET shorter == StringsUpTo(n - 1)
         IN  shorter \cup {Append(x, Chars[i]) : x \in shorter, i \in 1..Len(Chars)}

Texts == StringsUpTo(MaxTextLen)

\* The substrings matchers are built from.
Vocabulary == {<<>>, <<"A">>, <<"^">>, <<"A", "4">>, <<"4", "a">>}

RECURSIVE ListsUpTo(_)
\* the lists of at most n substrings
ListsUpTo(n) ==
    IF n = 0 THEN {<<>>}
    ELSE LET shorter == ListsUpTo(n - 1)
         IN  shorter \cup {Append(l, w) : l \in shorter, w \in Vocabulary}

\* The matchers __init__ constructs: it refuses an empty list.
Matchers ==
    [substrings : ListsUpTo(MaxSubstrings) \ {<<>>}, fuzzy : BOOLEAN, case_sensitive : BOOLEAN]

InitMatcher ==
    /\ matcher \in Matchers
    /\ text = PyNone
    /\ matched = PyNone
    /\ positions = Absent
    /\ ProofIdle
    /\ EngineIdle
    /\ ProbabilityIdle

\* matcher.match(text)
Match ==
    /\ text = PyNone
    /\ \E txt \in Texts :
          /\ text' = PyStr(txt)
          /\ matched' = PyBool(match(matcher, txt))
    /\ UNCHANGED <<matcher, positions>>
    /\ UNCHANGED nonMatcherVars

\* matcher.match_positions(text)
MatchPositions ==
    /\ text = PyNone
    /\ \E txt \in Texts :
          /\ text' = PyStr(txt)
          /\ positions' = match_positions(matcher, txt)
    /\ UNCHANGED <<matcher, matched>>
    /\ UNCHANGED nonMatcherVars

NextMatcher ==
    \/ Match
    \/ MatchPositions

SpecMatcher == InitMatcher /\ [][NextMatcher]_vars

----------------------------------------------------------------------------
(* crypto/matching.py, search_vanity_path_simple of crypto/derivation.py *)

\* the characters create_pattern_matcher takes as the sign of a regex
REGEX_SPECIALS == {"[", "]", "(", ")", "{", "}", "^", "$", ".", "*", "+", "?", "|", "\\"}

\* What re.compile makes of a pattern of plain characters and ".": "." is
\* any character except the line feed.
CompileRegex(pattern) ==
    [i \in 1..Len(pattern) |->
        IF pattern[i] = "." THEN [neg |-> TRUE, chars |-> {"\n"}]
        ELSE Literal(pattern[i])]

\* create_pattern_matcher(pattern, case_sensitive)(fingerprint)
create_pattern_matcher(pattern, case_sensitive, fingerprint) ==
    LET pat        == IF case_sensitive THEN pattern ELSE Lower(pattern)
        is_regex   == \E i \in 1..Len(pat) : pat[i] \in REGEX_SPECIALS
        extracted  == extract_fingerprint_searchable(fingerprint)
        searchable == IF case_sensitive THEN extracted ELSE Lower(extracted)
    IN  IF is_regex
        THEN \E p \in 0..Len(searchable) : MatchesAt(CompileRegex(pat), searchable, p)
        ELSE Contains(searchable, pat)

RECURSIVE SearchLoop_ZeroBased(_, _, _, _, _)
\* a loop that reports the index as the number of attempts
SearchLoop_ZeroBased(root_seed, pattern, max_attempts, case_sensitive, path_index) ==
    IF path_index >= max_attempts THEN Return(PyNone)
    ELSE LET child == derive_child_keypair(root_seed, PyInt(path_index))
             fingerprint == compute_ssh_fingerprint(child.val.public_key)
         IN  IF ~Ok(child) THEN child
             ELSE IF create_pattern_matcher(pattern, case_sensitive, fingerprint)
             THEN Return([k |-> "dict",
                          path_index |-> path_index,
                          public_key |-> child.val.public_key,
                          fingerprint |-> fingerprint,
                          attempts |-> path_index])
             ELSE SearchLoop_ZeroBased(root_seed, pattern, max_attempts, case_sensitive,
                             path_index + 1)

RECURSIVE SearchLoop(_, _, _, _, _)
\* search_vanity_path_simple: the for loop, at path_index
SearchLoop(root_seed, pattern, max_attempts, case_sensitive, path_index) ==
    IF path_index >= max_attempts THEN Return(PyNone)
    ELSE LET child == derive_child_keypair(root_seed, PyInt(path_index))
             fingerprint == compute_ssh_fingerprint(child.val.public_key)
         IN  IF ~Ok(child) THEN child
             ELSE IF create_pattern_matcher(pattern, case_sensitive, fingerprint)
             THEN Return([k |-> "dict",
                          path_index |-> path_index,
                          public_key |-> child.val.public_key,
                          fingerprint |-> fingerprint,
                          attempts |-> path_index + 1])
             ELSE SearchLoop(root_seed, pattern, max_attempts, case_sensitive,
                             path_index + 1)

search_vanity_path_simple(root_seed, pattern, max_attempts, case_sensitive) ==
    SearchLoop(root_seed, pattern, max_attempts, case_sensitive, 0)

\* The numbers of paths a search is allowed: up to one more than there are.
SearchLimits == 0..(PathIndexLimit + 1)

\* The patterns searched for: those ordered, and one with a character no
\* fingerprint holds.
SearchPatterns == Patterns \cup {<<"!">>}

\* The customer's seed is searched for a pattern.
SearchVanityPath ==
    /\ phase = "start"
    /\ \E pat \in SearchPatterns, cs \in BOOLEAN, n \in SearchLimits :
          search' = [pattern |-> pat, case_sensitive |-> cs, max_attempts |-> n,
                     result |-> search_vanity_path_simple(customer_seed, pat, n, cs)]
    /\ phase' = "searched"
    /\ UNCHANGED <<customer_seed, genArgs, orig, handed, tampered, call, ret>>
    /\ UNCHANGED nonProofVars

\* The order proof is generated for the path the search found.
GenerateProofOfSearch ==
    /\ phase = "searched"
    /\ Ok(search.result)
    /\ search.result.val.k = "dict"
    /\ LET found == search.result.val
           p == generate_order_proof(RootPublicBytes(genArgs.seed),
                                     PyInt(found.path_index), found.public_key,
                                     search.pattern, found.fingerprint)
       IN  /\ Ok(p)
           /\ genArgs' = [seed |-> genArgs.seed, index |-> found.path_index,
                          child |-> <<genArgs.seed, found.path_index>>,
                          root |-> genArgs.seed, pattern |-> search.pattern]
           /\ orig' = p.val
           /\ handed' = p.val
    /\ phase' = "generated"
    /\ UNCHANGED <<customer_seed, tampered, call, ret, search>>
    /\ UNCHANGED nonProofVars

\* The customer calls verify_order_proof_passwordless with a root public key.
VerifyPasswordless ==
    /\ phase \in {"generated", "tampered"}
    /\ \E rk \in Seeds :
          /\ call' = [fn |-> "verify_order_proof_passwordless", seed |-> PyNone,
                      expected |-> <<>>, root |-> RootPublicBytes(rk)]
          /\ ret' = verify_order_proof_passwordless(handed, RootPublicBytes(rk))
    /\ phase' = "verified"
    /\ UNCHANGED <<customer_seed, genArgs, orig, handed, tampered, search>>
    /\ UNCHANGED nonProofVars

NextProof ==
    \/ SearchVanityPath
    \/ GenerateProofOfSearch
    \/ GenerateProof
    \/ TamperDerivation
    \/ TamperPattern
    \/ TamperSection
    \/ VerifyDerivation
    \/ VerifyOrder
    \/ VerifyPasswordless

SpecProof == InitProof /\ [][NextProof]_vars

----------------------------------------------------------------------------
(* core/engine.py, core/types.py *)

\* The configurations GenerationConfig.__post_init__ accepts: num_workers
\* >= 1, max_attempts >= 1 or None, timeout_seconds > 0 or None.  None is
\* written 0: the engine tests both fields for truth.
Configs ==
    [num_workers : 1..MaxWorkers, max_attempts : 0..MaxAttempts, timeout_seconds : {0, 1}]

Workers == 0..(config.num_workers - 1)

\* the positions at which a worker process has ended
Ended == {"stopped", "timedout", "exhausted", "found", "crashed", "terminated"}

Returns(keypair, n) ==
    [kind |-> "return", exc |-> "none", keypair |-> keypair, attempts |-> n]
Raises(e) == [kind |-> "raise", exc |-> e, keypair |-> NoKey, attempts |-> 0]

InitEngine ==
    /\ config \in Configs
    /\ pc = "generate"
    /\ attempts = 0
    /\ started = 0
    /\ wpc = [w \in Workers |-> "unstarted"]
    /\ wattempts = [w \in Workers |-> 0]
    /\ result_queue = <<>>
    /\ stop_event = FALSE
    /\ result = NoResult
    /\ joined = 0
    /\ outcome = NoOutcome
    /\ ProofIdle
    /\ MatcherIdle
    /\ ProbabilityIdle

\* VanityEngine.generate: one worker runs in the calling process.
Generate ==
    /\ pc = "generate"
    /\ pc' = IF config.num_workers = 1 THEN "single_check" ELSE "start_workers"
    /\ UNCHANGED <<config, attempts, started, wpc, wattempts, result_queue,
                   stop_event, result, joined, outcome>>
    /\ UNCHANGED nonEngineVars

\* the attempts test with > for >=: one candidate too many
SingleAttemptsExceeded_OffByOne ==
    config.max_attempts # 0 /\ attempts > config.max_attempts

\* the attempts test of the single-threaded loop
SingleAttemptsExceeded == config.max_attempts # 0 /\ attempts >= config.max_attempts

\* _generate_single_threaded: the termination conditions at the top of the
\* loop.  The clock is not modelled: with a timeout configured it may have
\* run out at any iteration.
SingleCheck ==
    /\ pc = "single_check"
    /\ \/ /\ config.timeout_seconds # 0
          /\ outcome' = Raises("TimeoutError")
          /\ pc' = "done"
       \/ /\ SingleAttemptsExceeded
          /\ outcome' = Raises("RuntimeError")
          /\ pc' = "done"
       \/ /\ ~SingleAttemptsExceeded
          /\ outcome' = outcome
          /\ pc' = "single_generate"
    /\ UNCHANGED <<config, attempts, started, wpc, wattempts, result_queue,
                   stop_event, result, joined>>
    /\ UNCHANGED nonEngineVars

\* _generate_single_threaded: generate a key, count it, test it.
SingleGenerate ==
    /\ pc = "single_generate"
    /\ attempts < AttemptCap
    /\ attempts' = attempts + 1
    /\ \E m \in BOOLEAN :
          IF m
          THEN /\ outcome' = Returns([w |-> 0, n |-> attempts', matches |-> m], attempts')
               /\ pc' = "done"
          ELSE /\ outcome' = outcome
               /\ pc' = "single_check"
    /\ UNCHANGED <<config, started, wpc, wattempts, result_queue,
                   stop_event, result, joined>>
    /\ UNCHANGED nonEngineVars

\* _generate_multi_threaded: p.start() for the next worker; after the last,
\* the coordinator waits on the queue.
StartWorker ==
    /\ pc = "start_workers"
    /\ started < config.num_workers
    /\ wpc' = [wpc EXCEPT ![started] = "check"]
    /\ started' = started + 1
    /\ pc' = IF started' = config.num_workers THEN "get" ELSE "start_workers"
    /\ UNCHANGED <<config, attempts, wattempts, result_queue,
                   stop_event, result, joined, outcome>>
    /\ UNCHANGED nonEngineVars

\* the attempts test of the worker's loop
WorkerAttemptsExceeded(w) ==
    config.max_attempts # 0 /\ wattempts[w] >= config.max_attempts

\* a worker loop that tests the stop signal only when it is out of attempts
WorkerCheck_NoPoll(w) ==
    /\ wpc[w] = "check"
    /\ \/ /\ stop_event
          /\ WorkerAttemptsExceeded(w)
          /\ wpc' = [wpc EXCEPT ![w] = "stopped"]
       \/ /\ config.timeout_seconds # 0
          /\ wpc' = [wpc EXCEPT ![w] = "timedout"]
       \/ /\ ~stop_event
          /\ WorkerAttemptsExceeded(w)
          /\ wpc' = [wpc EXCEPT ![w] = "exhausted"]
       \/ /\ ~WorkerAttemptsExceeded(w)
          /\ wpc' = [wpc EXCEPT ![w] = "generate"]
    /\ UNCHANGED <<config, pc, attempts, started, wattempts, result_queue,
                   stop_event, result, joined, outcome>>
    /\ UNCHANGED nonEngineVars

\* _worker_process: the loop condition and the termination conditions.
WorkerCheck(w) ==
    /\ wpc[w] = "check"
    /\ \/ /\ stop_event
          /\ wpc' = [wpc EXCEPT ![w] = "stopped"]
       \/ /\ ~stop_event
          /\ config.timeout_seconds # 0
          /\ wpc' = [wpc EXCEPT ![w] = "timedout"]
       \/ /\ ~stop_event
          /\ WorkerAttemptsExceeded(w)
          /\ wpc' = [wpc EXCEPT ![w] = "exhausted"]
       \/ /\ ~stop_event
          /\ ~WorkerAttemptsExceeded(w)
          /\ wpc' = [wpc EXCEPT ![w] = "generate"]
    /\ UNCHANGED <<config, pc, attempts, started, wattempts, result_queue,
                   stop_event, result, joined, outcome>>
    /\ UNCHANGED nonEngineVars

\* _worker_process: generate a key, count it, test it; a match is put in
\* the queue and the worker returns.
WorkerGenerate(w) ==
    /\ wpc[w] = "generate"
    /\ wattempts[w] < AttemptCap
    /\ wattempts' = [wattempts EXCEPT ![w] = @ + 1]
    /\ \E m \in BOOLEAN :
          IF m
          THEN /\ result_queue' = Append(result_queue,
                      [keypair |-> [w |-> w, n |-> wattempts'[w], matches |-> m],
                       attempts |-> wattempts'[w], worker_id |-> w])
               /\ wpc' = [wpc EXCEPT ![w] = "found"]
          ELSE /\ result_queue' = result_queue
               /\ wpc' = [wpc EXCEPT ![w] = "check"]
    /\ UNCHANGED <<config, pc, attempts, started, stop_event, result, joined, outcome>>
    /\ UNCHANGED nonEngineVars

\* a worker that reports its crash through the result queue
WorkerCrash_Reported(w) ==
    /\ wpc[w] = "generate"
    /\ wpc' = [wpc EXCEPT ![w] = "crashed"]
    /\ result_queue' = Append(result_queue,
                             [keypair |-> NoKey, attempts |-> wattempts[w], worker_id |-> w])
    /\ UNCHANGED <<config, pc, attempts, started, wattempts,
                   stop_event, result, joined, outcome>>
    /\ UNCHANGED nonEngineVars

\* The generator or the matcher raises in worker w: the process dies with
\* the exception, which stays in that process.
WorkerCrash(w) ==
    /\ wpc[w] = "generate"
    /\ wpc' = [wpc EXCEPT ![w] = "crashed"]
    /\ UNCHANGED <<config, pc, attempts, started, wattempts, result_queue,
                   stop_event, result, joined, outcome>>
    /\ UNCHANGED nonEngineVars

\* result = result_queue.get(timeout=timeout): a result has arrived.
CoordGet ==
    /\ pc = "get"
    /\ result_queue # <<>>
    /\ result' = Head(result_queue)
    /\ result_queue' = Tail(result_queue)
    /\ pc' = "set_stop"
    /\ UNCHANGED <<config, attempts, started, wpc, wattempts, stop_event, joined, outcome>>
    /\ UNCHANGED nonEngineVars

\* result_queue.get(timeout=timeout): the timeout runs out on an empty
\* queue and get raises queue.Empty.
CoordGetTimeout ==
    /\ pc = "get"
    /\ result_queue = <<>>
    /\ config.timeout_seconds # 0
    /\ outcome' = Raises("queue.Empty")
    /\ pc' = "except"
    /\ UNCHANGED <<config, attempts, started, wpc, wattempts, result_queue,
                   stop_event, result, joined>>
    /\ UNCHANGED nonEngineVars

\* stop_event.set() after the first result, then the metrics and the
\* return value; the finally clause runs before generate returns.
CoordSetStop ==
    /\ pc = "set_stop"
    /\ stop_event' = TRUE
    /\ outcome' = Returns(result.keypair, result.attempts)
    /\ pc' = "cleanup"
    /\ UNCHANGED <<config, attempts, started, wpc, wattempts, result_queue, result, joined>>
    /\ UNCHANGED nonEngineVars

\* except Exception as e: stop_event.set(); raise e
CoordExcept ==
    /\ pc = "except"
    /\ stop_event' = TRUE
    /\ pc' = "cleanup"
    /\ UNCHANGED <<config, attempts, started, wpc, wattempts, result_queue,
                   result, joined, outcome>>
    /\ UNCHANGED nonEngineVars

\* finally: p.join(timeout=1.0) returns because worker p has ended.
CleanupJoin ==
    /\ pc = "cleanup"
    /\ joined < config.num_workers
    /\ wpc[joined] \in Ended
    /\ joined' = joined + 1
    /\ UNCHANGED <<config, pc, attempts, started, wpc, wattempts, result_queue,
                   stop_event, result, outcome>>
    /\ UNCHANGED nonEngineVars

\* a cleanup loop that joins and never terminates
CleanupTerminate_JoinOnly ==
    /\ pc = "cleanup"
    /\ joined < config.num_workers
    /\ wpc[joined] \notin Ended
    /\ joined' = joined + 1
    /\ UNCHANGED <<config, pc, attempts, started, wpc, wattempts, result_queue,
                   stop_event, result, outcome>>
    /\ UNCHANGED nonEngineVars

\* finally: p.join(timeout=1.0) runs out, p.is_alive(), p.terminate().
CleanupTerminate ==
    /\ pc = "cleanup"
    /\ joined < config.num_workers
    /\ wpc[joined] \notin Ended
    /\ wpc' = [wpc EXCEPT ![joined] = "terminated"]
    /\ joined' = joined + 1
    /\ UNCHANGED <<config, pc, attempts, started, wattempts, result_queue,
                   stop_event, result, outcome>>
    /\ UNCHANGED nonEngineVars

\* The finally clause is through: generate returns or re-raises.
CoordFinish ==
    /\ pc = "cleanup"
    /\ joined = config.num_workers
    /\ pc' = "done"
    /\ UNCHANGED <<config, attempts, started, wpc, wattempts, result_queue,
                   stop_event, result, joined, outcome>>
    /\ UNCHANGED nonEngineVars

\* the steps of the calling process in multi-worker mode
CoordStep ==
    \/ StartWorker
    \/ CoordGet
    \/ CoordGetTimeout
    \/ CoordSetStop
    \/ CoordExcept
    \/ CleanupJoin
    \/ CleanupTerminate
    \/ CoordFinish

NextEngine ==
    \/ Generate
    \/ SingleCheck
    \/ SingleGenerate
    \/ CoordStep
    \/ \E w \in Workers : WorkerCheck(w)
    \/ \E w \in Workers : WorkerGenerate(w)
    \/ \E w \in Workers : WorkerCrash(w)

SpecEngine == InitEngine /\ [][NextEngine]_vars

\* The operating system keeps scheduling the calling process and every
\* worker process that can take a step; no process is bound to crash.
FairSpecEngine ==
    /\ SpecEngine
    /\ WF_vars(CoordStep)
    /\ WF_vars(SingleCheck \/ SingleGenerate)
    /\ \A w \in 0..(MaxWorkers - 1) :
          WF_vars(w \in Workers /\ (WorkerCheck(w) \/ WorkerGenerate(w)))

----------------------------------------------------------------------------
(* Claims about the proof protocol, checked under SpecProof *)

VerifiedDerivation == phase = "verified" /\ call.fn = "verify_derivation_proof"
VerifiedOrder      == phase = "verified" /\ call.fn = "verify_order_proof"

ReturnedFalse == Ok(ret) /\ ret.val = FALSE
ReturnedTrue  == Ok(ret) /\ ret.val = TRUE

\* the derivation proof d is malformed in one of the ways C2 lists
Malformed(d) ==
    \/ d.k # "dict"
    \/ \E f \in {"path_index", "child_public_key", "derivation_hash"} : d[f].k = "absent"
    \/ \E f \in {"child_public_key", "derivation_hash"} : ~Ok(B64Decode(d[f]))
    \/ d.path_index.k # "int"
    \/ d.path_index.v < 0
    \/ d.path_index.v >= PathIndexLimit

\* C1: starting from a derivation proof that verifies against a seed,
\* replacing any single one of path_index, root_public_key,
\* child_public_key, derivation_hash by a different value (another index
\* in range, the base64 text of other bytes) makes verify_derivation_proof
\* return false for that seed.
C1_SingleFieldTamperRejected ==
    ( /\ VerifiedDerivation
      /\ Len(tampered) = 2
      /\ tampered[1] = "derivation"
      /\ tampered[2] \in DerivationFields
      /\ ~Malformed(handed.derivation)
      /\ IF tampered[2] = "path_index"
         THEN handed.derivation.path_index # orig.derivation.path_index
         ELSE /\ Ok(B64Decode(handed.derivation[tampered[2]]))
              /\ B64Decode(handed.derivation[tampered[2]]).val
                    # B64Decode(orig.derivation[tampered[2]]).val
      /\ verify_derivation_proof(orig.derivation, call.seed) = Return(TRUE) )
    => ReturnedFalse

\* C2: verify_derivation_proof fails closed: for every malformed proof and
\* any seed argument it returns false and never raises.
C2_DerivationFailsClosed ==
    (VerifiedDerivation /\ Malformed(handed.derivation)) => ReturnedFalse

\* the order proof p lacks a section, a field of a section, or carries an
\* out-of-range path_index
MalformedOrder(p) ==
    \/ \E sec \in {"derivation", "pattern_match"} : p[sec].k # "dict"
    \/ \E f \in DerivationFields : p.derivation[f].k = "absent"
    \/ \E f \in PatternFields : p.pattern_match[f].k = "absent"
    \/ /\ p.derivation.path_index.k = "int"
       /\ \/ p.derivation.path_index.v < 0
          \/ p.derivation.path_index.v >= PathIndexLimit

\* C3: verify_order_proof, called with the customer's seed, never raises on
\* malformed or tampered input: it always returns a structured result,
\* whose valid field is false when the proof is malformed.
C3_OrderNeverRaises ==
    (VerifiedOrder /\ call.seed = customer_seed) =>
        /\ Ok(ret)
        /\ MalformedOrder(handed) => ret.val.valid = FALSE

\* C6: verify_derivation_proof(proof, seed) returns true exactly when the
\* proof's child_public_key is the public key derived from seed at the
\* proof's path_index and its derivation_hash is the hash of (root public
\* key of seed, path_index, context); so it is true for a proof generated
\* from the seed's own root and child keys, and false for a proof carrying
\* another path's child key or verified against another seed.
C6_DerivationVerdictExact ==
    VerifiedDerivation =>
        LET d == handed.derivation
            s == call.seed
            wellFormed ==
                /\ ~Malformed(d)
                /\ s.k = "bytes"
                /\ s.v.len = 32
            childAt == [t |-> "pub", id |-> Append(s.v.id, d.path_index.v), len |-> 32]
            rootOf  == [t |-> "pub", id |-> s.v.id, len |-> 32]
            hashAt  == [t |-> "sha256", root |-> rootOf, idx |-> d.path_index.v,
                        ctx |-> DERIVATION_CONTEXT, len |-> 32]
            honest  == /\ tampered = <<>>
                       /\ genArgs.root = genArgs.seed
        IN  /\ ReturnedTrue <=> ( /\ wellFormed
                                   /\ B64Decode(d.child_public_key).val = childAt
                                   /\ B64Decode(d.derivation_hash).val = hashAt )
            /\ ( /\ honest
                 /\ genArgs.child = <<genArgs.seed, genArgs.index>>
                 /\ s = customer_seed ) => ReturnedTrue
            /\ ( /\ honest
                 /\ genArgs.child # <<genArgs.seed, genArgs.index>>
                 /\ s = customer_seed ) => ReturnedFalse
            /\ ( /\ honest
                 /\ s = PyBytes(MasterSeed(OtherSeed(genArgs.seed))) ) => ReturnedFalse

\* C6 witness: a proof as generated was verified against the customer's
\* seed and verify_derivation_proof returned true.
C6_Witness ==
    /\ VerifiedDerivation
    /\ ReturnedTrue
    /\ tampered = <<>>
    /\ call.seed = customer_seed

----------------------------------------------------------------------------
(* Claims about the search engine, checked under SpecEngine *)

MultiWorker  == config.num_workers > 1
SingleWorker == config.num_workers = 1
Done         == pc = "done"

AllWorkersAt(pos) ==
    /\ started = config.num_workers
    /\ \A w \in Workers : wpc[w] = pos

\* the exception a crashed worker died with
WorkerException == "worker exception"

\* C4: in multi-worker mode with max_attempts configured, if every worker
\* exhausts its attempts without finding a match, generate terminates and
\* fails with the attempts-exceeded error (RuntimeError) rather than
\* waiting indefinitely.
C4_MultiAttemptsExceeded ==
    (MultiWorker /\ config.max_attempts # 0 /\ AllWorkersAt("exhausted")) =>
        /\ Done => outcome = Raises("RuntimeError")
        /\ ~Done => ENABLED CoordStep

\* C5: in multi-worker mode, if all workers crash without any of them
\* finding a match, generate terminates and propagates the first fatal
\* error to the caller.
C5_AllWorkersFailPropagates ==
    (MultiWorker /\ AllWorkersAt("crashed")) =>
        /\ Done => outcome = Raises(WorkerException)
        /\ ~Done => ENABLED CoordStep

\* C7 as stated: in single-worker mode with max_attempts = N the engine
\* never generates more than N candidates, a match on the N-th candidate is
\* returned as success, and if none of the N candidates matches generate
\* fails with RuntimeError.
C7_SingleAttemptsExceeded ==
    (SingleWorker /\ config.max_attempts # 0) =>
        /\ attempts <= config.max_attempts
        /\ (Done /\ outcome.kind = "return") =>
              /\ outcome.keypair.matches
              /\ outcome.attempts = attempts
        /\ (Done /\ attempts = config.max_attempts /\ outcome.kind # "return") =>
              outcome = Raises("RuntimeError")

\* C7 as amended: ... and if none of the N candidates matches generate
\* fails with RuntimeError, or, when timeout_seconds is configured as well
\* and has run out, with TimeoutError (the timeout is tested first);
\* RuntimeError is raised only after N candidates.
C7_SingleAttemptsOrTimeout ==
    (SingleWorker /\ config.max_attempts # 0) =>
        /\ attempts <= config.max_attempts
        /\ (Done /\ outcome.kind = "return") =>
              /\ outcome.keypair.matches
              /\ outcome.attempts = attempts
        /\ (Done /\ attempts = config.max_attempts /\ outcome.kind # "return") =>
              \/ outcome = Raises("RuntimeError")
              \/ config.timeout_seconds # 0 /\ outcome = Raises("TimeoutError")
        /\ (Done /\ outcome = Raises("RuntimeError")) => attempts = config.max_attempts

\* C7 witness: N >= 2 candidates were generated, none matched, and generate
\* raised RuntimeError.
C7_Witness ==
    /\ SingleWorker
    /\ Done
    /\ config.max_attempts >= 2
    /\ attempts = config.max_attempts
    /\ outcome = Raises("RuntimeError")

C9_CrashTolerated ==
    ( /\ MultiWorker
      /\ \E w \in Workers : wpc[w] = "crashed"
      /\ pc = "get"
      /\ result_queue # <<>> )
    ~> ( /\ Done
         /\ outcome.kind = "return"
         /\ outcome.keypair.matches
         /\ wpc[outcome.keypair.w] = "found" )

\* C9 witness: generate returned a match although a worker had crashed.
C9_Witness ==
    /\ MultiWorker
    /\ Done
    /\ outcome.kind = "return"
    /\ \E w \in Workers : wpc[w] = "crashed"

\* C10: in multi-worker mode with timeout_seconds configured, when the
\* timeout elapses with no match generate fails with TimeoutError, the same
\* failure as in single-worker mode.
C10_MultiTimeoutError ==
    ( /\ MultiWorker
      /\ config.timeout_seconds # 0
      /\ Done
      /\ outcome.kind = "raise" ) => outcome = Raises("TimeoutError")

\* C11: cancellation is cooperative.  The stop signal, once set, stays set;
\* a worker at the top of its loop that sees it set leaves the loop without
\* generating; and a candidate is only ever counted by a worker that had
\* begun it, which then goes back to the top of the loop or reports its
\* match.  So after the signal a worker finishes at most the one candidate
\* it has begun (or is terminated by the cleanup after the grace period).
C11_CooperativeCancellation ==
    [][ /\ stop_event => stop_event'
        /\ \A w \in Workers :
              /\ (stop_event /\ wpc[w] = "check") =>
                    wpc'[w] \in {"check", "stopped", "terminated"}
              /\ wattempts'[w] # wattempts[w] =>
                    /\ wpc[w] = "generate"
                    /\ wattempts'[w] = wattempts[w] + 1
                    /\ wpc'[w] \in {"check", "found"}
              /\ (wpc[w] \in Ended) => (wpc'[w] = wpc[w] /\ wattempts'[w] = wattempts[w])
      ]_vars

\* C11 witness: a worker generated after the first match was received, saw
\* the stop signal at its next iteration and left the loop with candidates
\* still allowed.
C11_Witness ==
    /\ MultiWorker
    /\ stop_event
    /\ \E w \in Workers : /\ wpc[w] = "stopped"
                          /\ wattempts[w] >= 1
                          /\ ~WorkerAttemptsExceeded(w)

----------------------------------------------------------------------------
(* Claims about the multi-substring matcher, checked under SpecMatcher.   *)
(* A substring occurs at an offset under the matcher's rule when the       *)
(* sub-pattern the matcher builds for it matches there; what that rule is  *)
(* in fuzzy mode is the subject of C14.                                    *)

CalledMatch     == text # PyNone /\ matched # PyNone
CalledPositions == text # PyNone /\ positions # Absent

RECURSIVE OccurInOrder(_, _, _, _)
\* substrings k.. of m occur in txt in order, without overlapping, the first
\* of them at or after offset from
OccurInOrder(m, txt, k, from) ==
    \/ k > Len(m.substrings)
    \/ \E p \in from..Len(txt) :
          /\ MatchesAt(SubPattern(m, m.substrings[k]), txt, p)
          /\ OccurInOrder(m, txt, k + 1, p + Len(m.substrings[k]))

\* C12: match(text) is true exactly when the substrings occur in text in
\* the given order without overlapping, whatever characters lie before,
\* between and after the occurrences.
C12_MatchIffOrderedOccurrences ==
    CalledMatch => (matched.v <=> OccurInOrder(matcher, text.v, 1, 0))

SameGlyph(a, b) == NormalizeChar(a) = NormalizeChar(b)

\* C14: a fuzzy matcher built from the single substring p matches a text t
\* of the same length exactly when the characters of p and t are, position
\* by position, equal up to case or of the same glyph pair; and then the
\* fuzzy matcher built from t matches p.
C14_FuzzyGlyphPairsSymmetric ==
    ( /\ CalledMatch
      /\ matcher.fuzzy
      /\ Len(matcher.substrings) = 1
      /\ Len(matcher.substrings[1]) = Len(text.v) ) =>
        LET p == matcher.substrings[1]
            t == text.v
        IN  /\ matched.v <=> \A i \in 1..Len(p) : SameGlyph(p[i], t[i])
            /\ matched.v <=> match([matcher EXCEPT !.substrings = <<t>>], p)

----------------------------------------------------------------------------
(* Further claims about the proof protocol, checked under SpecProof *)

\* the proof handed over was generated for the path a search found
FromSearch == search # NoSearch /\ orig # NoProof

\* C15: when the path search reports a match at index i with fingerprint f
\* for a pattern, the order proof generated for (root public key, i, child
\* public key at i, pattern, f) is accepted by verify_order_proof, valid =
\* true, against the same seed and the same pattern.
C15_SearchedProofVerifies ==
    ( /\ VerifiedOrder
      /\ FromSearch
      /\ tampered = <<>>
      /\ call.seed = customer_seed
      /\ call.expected = search.pattern ) =>
        /\ Ok(ret)
        /\ ret.val.valid


VerifiedPasswordless ==
    phase = "verified" /\ call.fn = "verify_order_proof_passwordless"

PasswordlessValid(proof, root_public_bytes) ==
    LET r == verify_order_proof_passwordless(proof, root_public_bytes)
    IN  Ok(r) /\ r.val.valid

\* the string held by field f of the pattern_match section is non-empty
NonEmptyText(pm, f) == pm[f].k = "str" /\ pm[f].v # <<>>

\* the conditions C16 lists, on proof p and root key root_public_bytes
PasswordlessConditions(p, root_public_bytes) ==
    /\ p.derivation.k = "dict"
    /\ p.pattern_match.k = "dict"
    /\ p.derivation.root_public_key.k # "absent"
    /\ Ok(B64Decode(p.derivation.root_public_key))
    /\ B64Decode(p.derivation.root_public_key).val = root_public_bytes
    /\ NonEmptyText(p.pattern_match, "fingerprint")
    /\ NonEmptyText(p.pattern_match, "pattern")
    /\ Contains(Lower(extract_fingerprint_searchable(p.pattern_match.fingerprint.v)),
                Lower(p.pattern_match.pattern.v))
    /\ p.derivation.derivation_hash.k # "absent"

\* the values the three unread fields of a derivation section may take
UnreadFieldValues(f) ==
    CASE f = "derivation_hash" -> KeyValues(orig.derivation.derivation_hash.v, genArgs)
                                      \cup {PyNone}
      [] f = "child_public_key" -> KeyValues(orig.derivation.child_public_key.v, genArgs)
                                      \cup {PyNone, Absent}
      [] f = "path_index" -> IndexValues \cup {Absent}

C17_ValidIsConjunction ==
    (VerifiedOrder /\ Ok(ret)) =>
        LET r  == ret.val
            pm == handed.pattern_match
            derivation_ok  == verify_derivation_proof(handed.derivation, call.seed).val
            fingerprint_ok == PyEq(pm.fingerprint, r.fingerprint)
            found == Contains(Lower(extract_fingerprint_searchable(r.fingerprint.v)),
                              Lower(pm.pattern.v))
            same  == Lower(pm.pattern.v) = Lower(call.expected)
            Reported(e) == \E i \in 1..Len(r.errors) : r.errors[i] = e
            failed == {c \in {<<1, derivation_ok>>, <<2, fingerprint_ok>>,
                              <<3, found>>, <<4, same>>} : ~c[2]}
        IN  /\ r.valid = (derivation_ok /\ fingerprint_ok /\ found /\ same)
            /\ r.derivation_valid = derivation_ok
            /\ r.fingerprint_valid = fingerprint_ok
            /\ r.pattern_valid = (found /\ same)
            /\ Reported(ERR_DERIVATION) <=> ~derivation_ok
            /\ Reported(ERR_FINGERPRINT) <=> ~fingerprint_ok
            /\ Reported(ERR_NOT_FOUND) <=> ~found
            /\ Reported(ERR_MISMATCH) <=> ~same
            /\ Len(r.errors) = Cardinality(failed)
            /\ r.valid <=> r.errors = <<>>

\* a verification in which all four checks fail
C17_Witness ==
    /\ VerifiedOrder
    /\ Ok(ret)
    /\ Len(ret.val.errors) = 4


\* the proof handed over verifies against its own pattern with the seed of
\* the call
VerifiesWithOwnPattern ==
    /\ VerifiedOrder
    /\ Ok(ret)
    /\ LET own == verify_order_proof(handed, call.seed, handed.pattern_match.pattern.v)
       IN  Ok(own) /\ own.val.valid

\* the verdict on an expected pattern other than the proof's own
RejectedForPatternOnly ==
    LET own == verify_order_proof(handed, call.seed, handed.pattern_match.pattern.v)
    IN  /\ ~ret.val.valid
        /\ ~ret.val.pattern_valid
        /\ ret.val.derivation_valid = own.val.derivation_valid
        /\ ret.val.fingerprint_valid = own.val.fingerprint_valid

\* C18: for an order proof that verifies with its own pattern,
\* verify_order_proof with an expected pattern that differs from the proof's
\* pattern returns valid = False and pattern_valid = False, with
\* derivation_valid and fingerprint_valid as for the proof's own pattern.
C18_DifferentPatternRejected ==
    (VerifiesWithOwnPattern /\ call.expected # handed.pattern_match.pattern.v)
        => RejectedForPatternOnly

\* C18 as the code has it: the expected pattern differs from the proof's
\* pattern in more than the case of its letters.
C18_DifferentPatternRejectedIgnoringCase ==
    ( /\ VerifiesWithOwnPattern
      /\ Lower(call.expected) # Lower(handed.pattern_match.pattern.v) )
        => RejectedForPatternOnly

\* a proof valid for its own pattern is rejected for another expected pattern
C18_Witness ==
    /\ VerifiesWithOwnPattern
    /\ Lower(call.expected) # Lower(handed.pattern_match.pattern.v)
    /\ ~ret.val.valid
    /\ ret.val.derivation_valid
    /\ ret.val.fingerprint_valid


\* the derivation proofs generate_derivation_proof can produce, with their
\* three inputs
DerivationProofs ==
    {[root |-> RootPublicBytes(rk), index |-> i,
      child |-> ChildPublicKey(src[1], src[2]),
      proof |-> generate_derivation_proof(RootPublicBytes(rk), PyInt(i),
                                          ChildPublicKey(src[1], src[2])).val] :
        rk \in Seeds, i \in Indices, src \in Seeds \X Indices}

\* C19: the derivation_hash binds the path index, the root public key and
\* the child public key: a proof whose inputs differ from those of the
\* generated proof in any of the three has another derivation_hash.
C19_HashBindsInputs ==
    (phase = "generated" /\ search = NoSearch) =>
        \A o \in DerivationProofs :
            ( \/ o.root # RootPublicBytes(genArgs.root)
              \/ o.index # genArgs.index
              \/ o.child # ChildPublicKey(genArgs.child[1], genArgs.child[2]) )
            => o.proof.derivation_hash # orig.derivation.derivation_hash


----------------------------------------------------------------------------
(* domain/pattern.py and core/probability.py *)

\* MatchMode and FuzzyMode
MatchModes == {"prefix", "suffix", "contains", "multi", "regex"}
FuzzyModes == {"none", "leetspeak", "homoglyphs", "phonetic"}

\* str.upper()
Upper(s) == [i \in 1..Len(s) |-> UpperChar(s[i])]

\* Pattern(substrings, mode, fuzzy, case_sensitive) with its __post_init__
Pattern(substrings, mode, fuzzy, case_sensitive) ==
    IF substrings = <<>> THEN Raise("ValueError")
    ELSE IF mode = "multi" /\ Len(substrings) < 2 THEN Raise("ValueError")
    ELSE Return([k |-> "Pattern",
                 substrings |-> IF case_sensitive THEN substrings
                                ELSE [i \in 1..Len(substrings) |-> Upper(substrings[i])],
                 mode |-> mode, fuzzy |-> fuzzy, case_sensitive |-> case_sensitive])

RECURSIVE Join(_, _)
\* sep.join(parts)
Join(parts, sep) ==
    IF parts = <<>> THEN <<>>
    ELSE IF Len(parts) = 1 THEN parts[1]
    ELSE parts[1] \o sep \o Join(Tail(parts), sep)

\* Pattern.pattern_string
pattern_string(p) ==
    IF p.mode = "multi" THEN Join(p.substrings, <<" ">>)
    ELSE p.substrings[1]

BASE58_SIZE == 58

\* ProbabilityCalculator.FUZZY_EQUIVALENTS
FUZZY_EQUIVALENTS ==
    [c \in {"0", "O", "1", "I", "3", "E", "4", "A", "5", "S", "7", "T", "8", "B"} |-> 2]

\* A probability is the fraction num / den of two positive integers; the
\* program holds its nearest double.
Fraction(n, d) == [num |-> n, den |-> d]
Times(a, b) == Fraction(a.num * b.num, a.den * b.den)
LessEq(a, b) == a.num * b.den <= b.num * a.den
\* 1.0 / a
Inverse(a) == Fraction(a.den, a.num)

RECURSIVE FuzzyDenominator(_)
\* the loop of _calculate_prefix over substring.upper()
FuzzyDenominator(chars) ==
    IF chars = <<>> THEN 1
    ELSE LET char == Head(chars)
             valid_chars == IF char \in DOMAIN FUZZY_EQUIVALENTS
                            THEN FUZZY_EQUIVALENTS[char]
                            ELSE IF IsAlpha(char) THEN 2 ELSE 1
         IN  valid_chars * FuzzyDenominator(Tail(chars))

_calculate_prefix(p) ==
    LET substring == p.substrings[1]
        length == Len(substring)
    IN  IF p.fuzzy = "none" THEN Fraction(1, BASE58_SIZE ^ length)
        ELSE Fraction(1, FuzzyDenominator(Upper(substring)))

_calculate_suffix(p) == _calculate_prefix(p)

AVG_KEY_LENGTH == 44

Max(a, b) == IF a >= b THEN a ELSE b

_calculate_contains(p) ==
    LET length == Len(p.substrings[1])
        base_prob == _calculate_prefix(p)
        num_positions == Max(1, AVG_KEY_LENGTH - length + 1)
        more == Times(base_prob, Fraction(num_positions, 1))
    IN  IF LessEq(Fraction(1, 1), more) THEN Fraction(1, 1) ELSE more

RECURSIVE MultiLoop(_, _, _)
\* the for loop of _calculate_multi_substring, at substring k
MultiLoop(p, k, total_prob) ==
    IF k > Len(p.substrings) THEN total_prob
    ELSE LET temp_pattern == Pattern(<<p.substrings[k]>>, "contains", p.fuzzy, FALSE).val
         IN  MultiLoop(p, k + 1, Times(total_prob, _calculate_contains(temp_pattern)))

\* an estimate that looks at the last substring only
_calculate_multi_substring_LastOnly(p) ==
    _calculate_contains(Pattern(<<p.substrings[Len(p.substrings)]>>, "contains",
                                p.fuzzy, FALSE).val)

_calculate_multi_substring(p) == MultiLoop(p, 1, Fraction(1, 1))

RECURSIVE Remove(_, _)
\* s.replace(old, "")
Remove(str, old) ==
    IF Len(str) < Len(old) THEN str
    ELSE IF SubSeq(str, 1, Len(old)) = old
         THEN Remove(SubSeq(str, Len(old) + 1, Len(str)), old)
         ELSE <<Head(str)>> \o Remove(Tail(str), old)

_calculate_regex_conservative(p) ==
    LET pattern_str == pattern_string(p)
        length == Len(Remove(Remove(pattern_str, <<".", "*">>), <<"\\">>))
    IN  Fraction(1, BASE58_SIZE ^ Max(1, length))

\* ProbabilityCalculator.calculate: probability and expected_attempts (the
\* probability is never 0 here); the other entries are derived from these.
calculate(p) ==
    LET prob == CASE p.mode = "prefix"   -> _calculate_prefix(p)
                  [] p.mode = "suffix"   -> _calculate_suffix(p)
                  [] p.mode = "contains" -> _calculate_contains(p)
                  [] p.mode = "multi" -> _calculate_multi_substring(p)
                  [] p.mode = "regex"    -> _calculate_regex_conservative(p)
    IN  [k |-> "dict", probability |-> prob, expected_attempts |-> Inverse(prob)]

\* The characters of the patterns: a letter of an equivalence class, another
\* letter in lower case, a digit outside the classes, and the characters the
\* regex estimate removes.
PatternChars == <<"A", "g", "2", ".", "*", "\\">>

RECURSIVE PatternStringsUpTo(_)
PatternStringsUpTo(n) ==
    IF n = 0 THEN {<<>>}
    ELSE LET shorter == PatternStringsUpTo(n - 1)
         IN  shorter \cup {Append(x, PatternChars[i]) :
                              x \in shorter, i \in 1..Len(PatternChars)}

\* number of characters of a list of substrings
RECURSIVE TotalLen(_)
TotalLen(substrings) ==
    IF substrings = <<>> THEN 0 ELSE Len(Head(substrings)) + TotalLen(Tail(substrings))

\* The lists of substrings patterns are made of: none, one or two substrings.
SubstringLists ==
    {<<>>} \cup {<<x>> : x \in PatternStringsUpTo(MaxPatternLen)}
           \cup {l \in {<<x, y>> : x, y \in PatternStringsUpTo(MaxPatternLen)} :
                    TotalLen(l) <= MaxPatternLen}

BASE_COST == 50
COST_PER_ORDER == 10
COST_CAP == 500

\* A difficulty score is the fraction n / ScoreUnit.
ScoreUnit == 2 ^ ScoreBits
Scores == {Fraction(n, ScoreUnit) : n \in 0..(MaxScore * ScoreUnit)}

Min(a, b) == IF a <= b THEN a ELSE b

\* int(x) of a fraction that is not negative
IntOf(x) == x.num \div x.den

\* ProbabilityCalculator._calculate_token_cost
_calculate_token_cost(difficulty_score) ==
    IF LessEq(difficulty_score, Fraction(1, 1)) THEN BASE_COST
    ELSE LET cost == BASE_COST
                       + IntOf(Times(difficulty_score, Fraction(COST_PER_ORDER, 1)))
         IN  Min(COST_CAP, Max(BASE_COST, cost))

----------------------------------------------------------------------------
(* core/types.py and core/difficulty.py *)

\* PatternMatchType
PatternMatchTypes == {"prefix", "suffix", "contains", "regex"}

\* PatternConfig(pattern, match_type, case_sensitive) with its __post_init__
PatternConfig(pattern, match_type, case_sensitive) ==
    IF pattern = <<>> THEN Raise("ValueError")
    ELSE Return([k |-> "PatternConfig",
                 pattern |-> IF case_sensitive THEN pattern ELSE Upper(pattern),
                 match_type |-> match_type, case_sensitive |-> case_sensitive])

\* DifficultyCalculator.ALPHABET_SIZES
ALPHABET_SIZES ==
    [base58 |-> 58, base64 |-> 64, hex |-> 16, base32 |-> 32, decimal |-> 10]

\* The alphabet sizes DifficultyCalculator.__init__ is given: the named
\* ones and two "custom:N".
AlphabetSizes == {ALPHABET_SIZES[a] : a \in DOMAIN ALPHABET_SIZES} \cup {2, 36}

\* int(math.ceil(-math.log(0.001) * n)), with -log(0.001) = 6.907755279:
\* n * 0.907755279 is summed digit group by digit group
CeilLog1000Times(n) ==
    LET c3 == n * 279
        c2 == n * 755 + (c3 \div 1000)
        c1 == n * 907 + (c2 \div 1000)
        exact == c3 % 1000 = 0 /\ c2 % 1000 = 0 /\ c1 % 1000 = 0
    IN  6 * n + (c1 \div 1000) + (IF exact THEN 0 ELSE 1)

DifficultyEstimate(pattern, match_type, average, min_attempts, max_attempts, keyspace) ==
    [k |-> "DifficultyEstimate", pattern |-> pattern, match_type |-> match_type,
     average_attempts |-> average, min_attempts |-> min_attempts,
     max_attempts |-> max_attempts, keyspace_size |-> keyspace]

DifficultyPrefix(alphabet_size, pattern, length) ==
    LET keyspace == alphabet_size ^ length
    IN  DifficultyEstimate(pattern, "prefix", keyspace, 1,
                           CeilLog1000Times(keyspace), keyspace)

DifficultySuffix(alphabet_size, pattern, length) ==
    DifficultyPrefix(alphabet_size, pattern, length)

TARGET_STRING_LENGTH == 50

DifficultyContains(alphabet_size, pattern, length) ==
    LET keyspace == alphabet_size ^ length
        num_positions == Max(1, TARGET_STRING_LENGTH - length + 1)
        average == keyspace \div num_positions
    IN  DifficultyEstimate(pattern, "contains", average, 1,
                           CeilLog1000Times(average), keyspace)

\* the character is one of a-zA-Z0-9
IsAlnum(c) == IsAlpha(c) \/ c \in {"0", "1", "2", "3", "4", "5", "6", "7", "8", "9"}

REGEX_AVERAGE_DIVISOR == 10

DifficultyRegex(alphabet_size, pattern) ==
    LET clean_pattern == SelectSeq(pattern, IsAlnum)
        length == Max(1, Len(clean_pattern))
        keyspace == alphabet_size ^ length
        average == keyspace \div REGEX_AVERAGE_DIVISOR
    IN  DifficultyEstimate(pattern, "regex", average, 1,
                           CeilLog1000Times(average), keyspace)

\* DifficultyCalculator.calculate
DifficultyCalculate(alphabet_size, cfg) ==
    LET pattern_length == Len(cfg.pattern)
    IN  CASE cfg.match_type = "prefix" ->
                DifficultyPrefix(alphabet_size, cfg.pattern, pattern_length)
          [] cfg.match_type = "suffix" ->
                DifficultySuffix(alphabet_size, cfg.pattern, pattern_length)
          [] cfg.match_type = "contains" ->
                DifficultyContains(alphabet_size, cfg.pattern, pattern_length)
          [] OTHER -> DifficultyRegex(alphabet_size, cfg.pattern)

InitProbability ==
    /\ vpattern = PyNone
    /\ estimate = Absent
    /\ score = PyNone
    /\ cost_tokens = PyNone
    /\ pattern_config = PyNone
    /\ difficulty = PyNone
    /\ ProofIdle
    /\ EngineIdle
    /\ MatcherIdle

\* Pattern(substrings=..., mode=..., fuzzy=..., case_sensitive=...)
NewPattern ==
    /\ vpattern = PyNone
    /\ score = PyNone
    /\ pattern_config = PyNone
    /\ \E l \in SubstringLists, mode \in MatchModes, fuzzy \in FuzzyModes,
          case_sensitive \in BOOLEAN :
          vpattern' = Pattern(l, mode, fuzzy, case_sensitive)
    /\ UNCHANGED <<estimate, score, cost_tokens, pattern_config, difficulty>>
    /\ UNCHANGED nonProbabilityVars

\* ProbabilityCalculator().calculate(pattern)
Calculate ==
    /\ vpattern # PyNone
    /\ Ok(vpattern)
    /\ estimate = Absent
    /\ estimate' = calculate(vpattern.val)
    /\ UNCHANGED <<vpattern, score, cost_tokens, pattern_config, difficulty>>
    /\ UNCHANGED nonProbabilityVars

\* ProbabilityCalculator()._calculate_token_cost(difficulty_score)
TokenCost ==
    /\ vpattern = PyNone
    /\ score = PyNone
    /\ pattern_config = PyNone
    /\ \E d \in Scores :
          /\ score' = d
          /\ cost_tokens' = _calculate_token_cost(d)
    /\ UNCHANGED <<vpattern, estimate, pattern_config, difficulty>>
    /\ UNCHANGED nonProbabilityVars

\* PatternConfig(pattern=..., match_type=..., case_sensitive=...) for a
\* DifficultyCalculator of some alphabet
NewPatternConfig ==
    /\ vpattern = PyNone
    /\ score = PyNone
    /\ pattern_config = PyNone
    /\ \E pattern \in PatternStringsUpTo(MaxPatternLen), mt \in PatternMatchTypes,
          cs \in BOOLEAN, size \in AlphabetSizes :
          LET cfg == PatternConfig(pattern, mt, cs)
          IN  pattern_config' = [alphabet_size |-> size, exc |-> cfg.exc, val |-> cfg.val]
    /\ UNCHANGED <<vpattern, estimate, score, cost_tokens, difficulty>>
    /\ UNCHANGED nonProbabilityVars

\* DifficultyCalculator(alphabet).calculate(config)
CalculateDifficulty ==
    /\ pattern_config # PyNone
    /\ Ok(pattern_config)
    /\ difficulty = PyNone
    /\ difficulty' = DifficultyCalculate(pattern_config.alphabet_size, pattern_config.val)
    /\ UNCHANGED <<vpattern, estimate, score, cost_tokens, pattern_config>>
    /\ UNCHANGED nonProbabilityVars

NextProbability ==
    \/ NewPattern
    \/ Calculate
    \/ TokenCost
    \/ NewPatternConfig
    \/ CalculateDifficulty

SpecProbability == InitProbability /\ [][NextProbability]_vars

----------------------------------------------------------------------------
(* Claims about the probability calculator, checked under SpecProbability *)

Calculated == vpattern # PyNone /\ Ok(vpattern) /\ estimate # Absent

\* the patterns the constructor accepts that have the mode and the fuzzy
\* setting of p
PatternsLike(p) ==
    {q.val : q \in {r \in {Pattern(l, p.mode, p.fuzzy, cs) :
                              l \in SubstringLists, cs \in BOOLEAN} : Ok(r)}}

\* the pattern is written as the mode reads it: one substring, or the
\* substrings of a multi-substring pattern
Plain(p) == p.mode = "multi" \/ Len(p.substrings) = 1

\* C20: of two patterns of the same match mode and the same fuzzy setting,
\* the shorter one's expected_attempts is at most the longer one's.
C20_ShorterPatternEasier ==
    (Calculated /\ Plain(vpattern.val)) =>
        \A q \in PatternsLike(vpattern.val) :
            (Plain(q) /\ TotalLen(q.substrings) < TotalLen(vpattern.val.substrings))
                => LessEq(calculate(q).expected_attempts, estimate.expected_attempts)


\* the pattern has a character of a leetspeak equivalence class
HasClassChar(p) ==
    \E k \in 1..Len(p.substrings) :
        \E i \in 1..Len(p.substrings[k]) :
            UpperChar(p.substrings[k][i]) \in DOMAIN FUZZY_EQUIVALENTS

\* C21: for a pattern with at least one character of an equivalence class,
\* in every match mode, the expected_attempts with fuzzy matching on is
\* strictly smaller than that of the same pattern with fuzzy matching off.
C21_FuzzyStrictlyEasier ==
    ( /\ Calculated
      /\ Plain(vpattern.val)
      /\ vpattern.val.fuzzy # "none"
      /\ HasClassChar(vpattern.val) )
        => LET exact == calculate([vpattern.val EXCEPT !.fuzzy = "none"])
           IN  ~LessEq(exact.expected_attempts, estimate.expected_attempts)


\* calculate() of the single-substring pattern made of the first substring
\* of p, in the given mode and with the fuzzy setting of p
FirstAlone(p, mode) ==
    calculate(Pattern(<<p.substrings[1]>>, mode, p.fuzzy, p.case_sensitive).val)

CalculatedMulti == Calculated /\ vpattern.val.mode = "multi"

Costed == score # PyNone

\* the score is the whole number n
ScoreIs(n) == score.num = n * score.den

\* C23: the token cost is 50 for a score of at most 1 and rises by 10 per
\* unit of score (2 -> 60, 3 -> 70, 6 -> 100, 9 -> 130); it does not decrease
\* when the score grows and lies between 50 and 500.
C23_TokenCostScale ==
    Costed =>
        /\ LessEq(score, Fraction(1, 1)) => cost_tokens = 50
        /\ ScoreIs(2) => cost_tokens = 60
        /\ ScoreIs(3) => cost_tokens = 70
        /\ ScoreIs(6) => cost_tokens = 100
        /\ ScoreIs(9) => cost_tokens = 130
        /\ \A d \in Scores : LessEq(d, score) => _calculate_token_cost(d) <= cost_tokens
        /\ cost_tokens \in 50..500


\* C24: once the combined expression has matched, locating the substrings
\* one by one never fails: match_positions(text) returns None exactly when
\* match(text) is false.
C24_PositionsNoneIffNoMatch ==
    CalledPositions =>
        /\ (positions = PyNone) <=> ~match(matcher, text.v)
        /\ match(matcher, text.v) => positions.k = "list"

\* match_positions located two substrings of a match that begins after the
\* start of the text
C24_Witness ==
    /\ CalledPositions
    /\ match(matcher, text.v)
    /\ positions.k = "list"
    /\ Len(positions.v) = 2
    /\ positions.v[1][1] > 0


Searched == phase = "searched"

\* the indices below max_attempts whose child fingerprint the matcher of the
\* search accepts; an index outside the range of path indices has no child
MatchingIndices ==
    {i \in 0..(search.max_attempts - 1) :
        /\ i < PathIndexLimit
        /\ create_pattern_matcher(search.pattern, search.case_sensitive,
               compute_ssh_fingerprint(
                   derive_child_keypair(customer_seed, PyInt(i)).val.public_key))}

\* the search returned the first matching index, or None when there is none
FirstMatchReturned ==
    /\ Ok(search.result)
    /\ (search.result.val = PyNone) <=> (MatchingIndices = {})
    /\ MatchingIndices # {} =>
          LET r == search.result.val
              child == derive_child_keypair(customer_seed, PyInt(r.path_index)).val
          IN  /\ r.path_index \in MatchingIndices
              /\ \A i \in MatchingIndices : r.path_index <= i
              /\ r.attempts = r.path_index + 1
              /\ r.public_key = child.public_key
              /\ r.fingerprint = compute_ssh_fingerprint(child.public_key)

C29_SearchStaysInIndexRange ==
    Searched =>
        /\ Ok(search.result)
        /\ \/ search.result.val = PyNone
           \/ search.result.val.path_index \in 0..(PathIndexLimit - 1)


\* C26: every order proof verify_order_proof accepts for a seed and an
\* expected pattern is accepted by verify_order_proof_passwordless given the
\* root public key of that seed.
C26_PasswordlessWeaker ==
    (VerifiedOrder /\ Ok(ret) /\ ret.val.valid) =>
        PasswordlessValid(handed,
            public_key_to_bytes(seed_to_root_keypair(call.seed).val.public_key))


\* the other case of a letter, the character itself otherwise
OtherCase(c) == IF UpperChar(c) # c THEN UpperChar(c) ELSE LowerChar(c)

\* the sub-pattern of a substring without the other case of its letters
CaseRespecting(m, substring) ==
    LET sub_pattern == SubPattern(m, substring)
    IN  [i \in 1..Len(substring) |->
            IF sub_pattern[i].neg \/ OtherCase(substring[i]) = substring[i]
            THEN sub_pattern[i]
            ELSE [sub_pattern[i] EXCEPT !.chars = @ \ {OtherCase(substring[i])}]]

\* the substrings occur in txt as the matcher finds them, no letter of a
\* substring standing against its other case
OccursInItsCase(m, txt) ==
    LET pattern == [k \in 1..Len(m.substrings) |-> CaseRespecting(m, m.substrings[k])]
    IN  \E p \in 0..Len(txt) : MatchFrom(pattern, 1, txt, p)

\* C27: a matcher built with case_sensitive = True, fuzzy or not, never
\* matches a text in which a substring occurs only in another letter case.
C27_CaseSensitiveHonoured ==
    (CalledMatch /\ matcher.case_sensitive /\ matched.v)
        => OccursInItsCase(matcher, text.v)


RECURSIVE CandidatesOf(_)
\* the candidates workers 0..(n - 1) have generated
CandidatesOf(n) == IF n = 0 THEN 0 ELSE wattempts[n - 1] + CandidatesOf(n - 1)

\* C28: in multi-worker mode max_attempts bounds the whole search: all
\* workers together generate no more than max_attempts candidates.
C28_MaxAttemptsBoundsAllWorkers ==
    (MultiWorker /\ config.max_attempts # 0)
        => CandidatesOf(config.num_workers) <= config.max_attempts


\* C30: for every alphabet size and every pattern, in every match mode, the
\* estimate DifficultyCalculator.calculate returns has
\* 1 <= min_attempts <= average_attempts <= max_attempts.
C30_AttemptsOrdered ==
    difficulty # PyNone =>
        /\ 1 <= difficulty.min_attempts
        /\ difficulty.min_attempts <= difficulty.average_attempts
        /\ difficulty.average_attempts <= difficulty.max_attempts

====
